---- MODULE Spec2Model ----
(***************************************************************************)
(* The persistent record store of the personal finance manager:            *)
(* src/core/data_manager.py.  The state is the data directory (live files, *)
(* temporary files, timestamped backups), the wall clock, and the position *)
(* of the single process inside the current data_manager call.  Every      *)
(* filesystem operation of a call is one step; an operation that can raise *)
(* OSError has a failing outcome, drawn while the fault budget lasts.      *)
(***************************************************************************)
EXTENDS Naturals, Integers, Sequences, FiniteSets, TLC

VARIABLES
    dataDir,    \* DATA_DIR exists
    backupDir,  \* BACKUP_DIR exists
    live,       \* live[f]: text of users.json / transactions.json
    tmp,        \* tmp[f]: text of <file>.tmp
    backups,    \* backups[f][ts]: text of backups/<base>.bak_<ts>
    clock,      \* datetime.now() at second resolution
    pc,         \* position inside the current call: "idle" between calls,
                \* "done" when the call has ended and the caller holds ret
    pf,         \* the file the current step works on
    op,         \* the data_manager function being executed
    arg,        \* its arguments: [users |-> list, txns |-> list]
    restored,   \* restored[f]: result of restore_latest_backup(f) in this call
    warnings,   \* warning lines printed by the current (or last) load call
    ret,        \* outcome of the last finished call
    pre,        \* live files as they were when the current call started
    saved,      \* users list of the last save that returned normally, if any
    saves,      \* history: texts of users.json just before each of the latest
                \* successive successful save_users calls (kept when track)
    track,      \* whether the saves history is recorded in this behaviour
    faulted,    \* whether an I/O failure was injected during the current call
    bfail,      \* bfail[f]: the backup copy of f, or a deletion of its
                \* rotation, failed during the current call
    faults,     \* I/O failures the environment may still inject
    corrupts,   \* external corruptions of a live file still allowed
    money,      \* the monetary amounts of one feature: as typed, as held in
                \* memory, as persisted, and as read back after a restart
    rot,        \* the loop of _rotate_backups: its list `files`, its `keep`,
                \* the backups it found and the removals it has attempted
    app         \* module state of the interactive features (auth,
                \* transactions, budget): their lists, counters and session

vars == <<dataDir, backupDir, live, tmp, backups, clock, pc, pf, op, arg,
          restored, warnings, ret, pre, saved, saves, track, faulted, bfail,
          faults, corrupts, money, rot, app>>

----------------------------------------------------------------------------
(* Bounds of the model *)
MaxClock == 2       \* seconds the clock may reach under Spec
MaxFaults == 1      \* I/O failures injected in one behaviour of Spec
MaxCorrupt == 1     \* external corruptions in one behaviour (Spec, SpecUsers)
MaxClockU == 3      \* seconds the clock may reach under SpecUsers
MaxFaultsU == 2     \* I/O failures injected in one behaviour of SpecUsers
MaxClockS == 2      \* seconds the clock may reach under SpecSave
MaxFaultsS == 2     \* I/O failures injected in one behaviour of SpecSave
MaxTicksR == 1      \* seconds the clock may pass the _BACKUP_KEEP-th second
                    \* under SpecRetention and SpecHistory
MaxFaultsR == 1     \* I/O failures injected in one behaviour of SpecRetention
MaxBackupsT == 2    \* backups of each file at the start under SpecRestore
MaxFaultsT == 1     \* I/O failures under SpecRestore
MaxFaultsRoot == 1  \* I/O failures under SpecRoot
MaxBackupsRot == 3  \* backups of a file at the start under SpecRotate
MaxKeep == 2        \* largest `keep` passed to _rotate_backups under SpecRotate
MaxUsers == 3       \* users in the list under SpecAuth
MaxTxnId == 3       \* transactions added in one session under SpecTxn
MaxMonths == 2      \* calendar months passed under SpecBudget
MaxLen == 2         \* records in a list saved under SpecRoundTrip

(* Program constant *)
_BACKUP_KEEP == 5

USERS_FILE == "users"
TXNS_FILE == "txns"
Files == {USERS_FILE, TXNS_FILE}
Max(S) == CHOOSE m \in S : \A x \in S : x <= m
Ts == 1..Max({MaxClock, MaxClockU, MaxClockS, _BACKUP_KEEP + MaxTicksR,
              MaxBackupsRot})

(* Python values.  A field value is <<type, repr>>: a str with its text, a  *)
(* bool with "True" / "False", an int or a float with the characters of    *)
(* its repr; a record is a dict, the sequence of its <<key, value>> items  *)
(* in insertion order.                                                     *)
PyStr(s) == <<"str", s>>
PyBool(b) == <<"bool", b>>
PyInt(chars) == <<"int", chars>>
PyFloat(chars) == <<"float", chars>>
PyDict(items) == <<"dict", items>>
nan == PyFloat(<<"n", "a", "n">>)

(* The records of the store *)
u1 == PyDict(<< <<"user_id", PyStr("U001")>>, <<"name", PyStr("Nermeen")>> >>)
u2 == PyDict(<< <<"user_id", PyStr("U002")>>, <<"name", PyStr("Mohamed")>> >>)
t1 == PyDict(<< <<"transaction_id", PyStr("T001")>>,
                <<"amount", PyFloat(<<"5", "0", ".", "0">>)>> >>)

(* In-memory collections handed to save: lists of records *)
UserLists == {<<u1>>, <<u1, u2>>}
TxnLists == {<<t1>>}

(* File texts.  json.dump of a list yields the text of a JSON array; the   *)
(* other texts are what can also be found on disk.                         *)
Absent == <<"absent", <<>>>>
Malformed == <<"malformed", <<>>>>
Partial == <<"partial", <<>>>>
JsonObject == <<"object", <<>>>>

(* json.dump of one value: the JSON token written for it.  A str becomes a *)
(* string, a bool the literal true / false, an int its digits, a float its *)
(* repr, except that nan is written as NaN.                                *)
NaNToken == <<"N", "a", "N">>
dump_value(v) ==
    CASE v[1] = "str" -> <<"string", v[2]>>
      [] v[1] = "bool" -> <<"literal", IF v[2] = "True" THEN "true" ELSE "false">>
      [] v[1] = "int" -> <<"number", v[2]>>
      [] OTHER -> <<"number", IF v = nan THEN NaNToken ELSE v[2]>>

(* a dict becomes an object, its members in the order of the items *)
dump_object(d) ==
    IF d[1] = "dict"
    THEN <<"object", [i \in 1..Len(d[2]) |-> <<d[2][i][1], dump_value(d[2][i][2])>>]>>
    ELSE dump_value(d)

json_dump(list) == <<"array", [i \in 1..Len(list) |-> dump_object(list[i])]>>
EmptyArray == json_dump(<<>>)

(* json.load of one token: a number with a fraction or an exponent is a    *)
(* float, as is NaN; any other number is an int.                           *)
load_value(tok) ==
    CASE tok[1] = "string" -> PyStr(tok[2])
      [] tok[1] = "literal" -> PyBool(IF tok[2] = "true" THEN "True" ELSE "False")
      [] OTHER ->
            IF tok[2] = NaNToken THEN nan
            ELSE IF \E i \in 1..Len(tok[2]) : tok[2][i] \in {".", "e", "E"}
                 THEN PyFloat(tok[2])
            ELSE PyInt(tok[2])

load_object(e) ==
    IF e[1] = "object"
    THEN PyDict([i \in 1..Len(e[2]) |-> <<e[2][i][1], load_value(e[2][i][2])>>])
    ELSE load_value(e)

(* json.load followed by the isinstance(..., list) check: ok iff the text  *)
(* parses and its top-level value is a list.                               *)
json_load(text) ==
    IF text[1] = "array"
    THEN [ok |-> TRUE, val |-> [i \in 1..Len(text[2]) |-> load_object(text[2][i])]]
    ELSE [ok |-> FALSE, val |-> <<>>]

Exists(text) == text # Absent

----------------------------------------------------------------------------
(* Backup manager: pure parts *)

(* glob of BACKUP_DIR/<base>.bak_<ts>: the timestamps of the existing backups *)
BackupFiles(bk) == {t \in DOMAIN bk : Exists(bk[t])}

(* _backup_filename: the name is the base name and the clock's second *)
_backup_filename(now) == now

(* sorted(glob(...)) oldest first: the files beyond the newest `keep` *)
RotateVictims(bk, keep) ==
    {t \in BackupFiles(bk) :
        Cardinality({u \in BackupFiles(bk) : u > t}) >= keep}

(* _rotate_backups: os.remove each victim; a removal in failing raises     *)
(* OSError, which is passed over                                           *)
_rotate_backups(bk, keep, failing) ==
    [t \in DOMAIN bk |->
        IF t \in RotateVictims(bk, keep) /\ t \notin failing
        THEN Absent ELSE bk[t]]

(* The first name in ascending order: the oldest backup *)
OldestBackupFor(bk) ==
    IF BackupFiles(bk) = {} THEN 0
    ELSE CHOOSE t \in BackupFiles(bk) : \A u \in BackupFiles(bk) : t <= u

(* _latest_backup_for: sorted(..., reverse=True)[0], or 0 for None *)
_latest_backup_for(bk) ==
    IF BackupFiles(bk) = {} THEN 0 ELSE Max(BackupFiles(bk))

----------------------------------------------------------------------------
(* Outcomes of a call *)
NoRet == [kind |-> "none", outcome |-> "-", users |-> <<>>, txns |-> <<>>]
Returned(o, u, t) ==
    [kind |-> "returned", outcome |-> o, users |-> u, txns |-> t]
Raised(o) == [kind |-> "raised", outcome |-> o, users |-> <<>>, txns |-> <<>>]
NoArg == [users |-> <<>>, txns |-> <<>>]

SaveOps == {"save_users", "save_data"}
LoadOps == {"load_users", "load_data"}
Ops == {"ensure_data_files"} \cup SaveOps \cup LoadOps

(* A fresh installation: nothing exists on disk *)
InitFresh ==
    /\ dataDir = FALSE
    /\ backupDir = FALSE
    /\ live = [f \in Files |-> Absent]
    /\ tmp = [f \in Files |-> Absent]
    /\ backups = [f \in Files |-> [t \in Ts |-> Absent]]
    /\ clock = 1

(* The data directory as n calls save_data(<<u1>>, <<t1>>) made at the      *)
(* seconds 1..n of an earlier session leave it: the first call backed up   *)
(* the empty files it had just created, each later one the saved lists.    *)
SavedList(f) == IF f = USERS_FILE THEN <<u1>> ELSE <<t1>>
InitAfterSaves(n) ==
    /\ dataDir = TRUE
    /\ backupDir = TRUE
    /\ live = [f \in Files |-> json_dump(SavedList(f))]
    /\ tmp = [f \in Files |-> Absent]
    /\ backups = [f \in Files |-> [t \in Ts |->
                    IF t > n THEN Absent
                    ELSE IF t = 1 THEN EmptyArray
                    ELSE json_dump(SavedList(f))]]
    /\ clock = n

(* No feature has taken an amount yet *)
NoMoney == [feature |-> "none", typed |-> <<>>, memory |-> <<>>,
            disk |-> <<>>, reloaded |-> <<>>, restarted |-> FALSE]

(* The rotation loop is not running *)
NoRot == [files |-> <<>>, keep |-> 0, found |-> {}, attempted |-> <<>>]

(* The interactive features are not loaded *)
NoApp == [feature |-> "none"]

(* No call is in progress *)
InitIdle ==
    /\ pc = "idle"
    /\ pf = USERS_FILE
    /\ op = "none"
    /\ arg = NoArg
    /\ restored = [f \in Files |-> FALSE]
    /\ warnings = 0
    /\ ret = NoRet
    /\ pre = [f \in Files |-> Absent]
    /\ saved = <<>>
    /\ saves = <<>>
    /\ faulted = FALSE
    /\ bfail = [f \in Files |-> FALSE]
    /\ money = NoMoney
    /\ rot = NoRot

InitCall ==
    /\ InitIdle
    /\ app = NoApp

Init ==
    /\ InitFresh
    /\ InitCall
    /\ track = FALSE
    /\ faults = MaxFaults
    /\ corrupts = MaxCorrupt

----------------------------------------------------------------------------
(* Control transfer *)
Goto(p, f) == pc' = p /\ pf' = f /\ ret' = ret
Finish(r) == pc' = "done" /\ pf' = USERS_FILE /\ ret' = r

(* An I/O operation fails: one failure is taken from the budget *)
Fault == faults > 0 /\ faults' = faults - 1 /\ faulted' = TRUE
NoFault == faults' = faults /\ faulted' = faulted

----------------------------------------------------------------------------
(* ensure_data_files.  fp is the place where an OSError strikes:           *)
(* "none", the makedirs of DATA_DIR ("data") or of BACKUP_DIR ("backup"),  *)
(* or the open / the write of a missing file.  A failure is possible only  *)
(* where something has to be created.                                      *)
EnsureStages ==
    <<"data", "backup", "users_open", "users_write", "txns_open", "txns_write">>
StageOf(fp) == CHOOSE i \in 1..Len(EnsureStages) : EnsureStages[i] = fp
EnsureCanFail(fp) ==
    CASE fp = "data" -> ~dataDir
      [] fp = "backup" -> ~backupDir
      [] fp \in {"users_open", "users_write"} -> ~Exists(live[USERS_FILE])
      [] fp \in {"txns_open", "txns_write"} -> ~Exists(live[TXNS_FILE])
      [] OTHER -> FALSE
EnsureFailPoints == {"none"} \cup
    {EnsureStages[i] : i \in {j \in 1..Len(EnsureStages) : EnsureCanFail(EnsureStages[j])}}

(* whether the stage numbered i is carried out when the failure is at fp *)
EnsureReaches(i, fp) == fp = "none" \/ i < StageOf(fp)

(* An initialisation that writes the empty array whether or not the file   *)
(* exists                                                                  *)
EnsureFileRewrites(f, iOpen, fp) ==
    IF EnsureReaches(iOpen + 1, fp) THEN EmptyArray
    ELSE IF EnsureReaches(iOpen, fp) THEN Partial
    ELSE live[f]

EnsureFile(f, iOpen, fp) ==
    IF Exists(live[f]) THEN live[f]
    ELSE IF EnsureReaches(iOpen + 1, fp) THEN EmptyArray
    ELSE IF EnsureReaches(iOpen, fp) THEN Partial
    ELSE Absent

ensure_data_files(fp) ==
    [ok |-> fp = "none",
     dataDir |-> dataDir \/ EnsureReaches(1, fp),
     backupDir |-> backupDir \/ EnsureReaches(2, fp),
     live |-> [f \in Files |->
                 IF f = USERS_FILE THEN EnsureFile(f, 3, fp)
                 ELSE EnsureFile(f, 5, fp)]]

----------------------------------------------------------------------------
(* the last n elements of a sequence *)
LastOf(q, n) == IF Len(q) <= n THEN q ELSE SubSeq(q, Len(q) - n + 1, Len(q))

(* Entering a data_manager function.  Each of them starts by calling       *)
(* ensure_data_files outside any try block, so its error reaches the       *)
(* caller.                                                                 *)
Begin(o, u, t, fp) ==
    LET e == ensure_data_files(fp) IN
    /\ pc = "idle"
    /\ op' = o
    /\ arg' = [users |-> u, txns |-> t]
    /\ pre' = live
    /\ restored' = [f \in Files |-> FALSE]
    /\ warnings' = 0
    /\ saved' = IF o \in SaveOps THEN <<>> ELSE saved
    /\ dataDir' = e.dataDir
    /\ backupDir' = e.backupDir
    /\ live' = e.live
    /\ IF fp = "none"
       THEN faults' = faults /\ faulted' = FALSE
       ELSE faults > 0 /\ faults' = faults - 1 /\ faulted' = TRUE
    /\ IF ~e.ok THEN Finish(Raised("init"))
       ELSE IF o = "ensure_data_files" THEN Finish(Returned("-", <<>>, <<>>))
       ELSE IF o \in SaveOps
            THEN pc' = "backup" /\ pf' = USERS_FILE /\ ret' = NoRet
       ELSE pc' = "read" /\ pf' = USERS_FILE /\ ret' = NoRet
    /\ saves' = IF e.ok /\ o = "save_users" /\ track
                THEN LastOf(Append(saves, e.live[USERS_FILE]), _BACKUP_KEEP + 1)
                ELSE <<>>
    /\ bfail' = [f \in Files |-> FALSE]
    /\ UNCHANGED <<rot, app, money, tmp, backups, clock, track, corrupts>>

call_ensure_data_files ==
    \E fp \in EnsureFailPoints : Begin("ensure_data_files", <<>>, <<>>, fp)
call_save_users ==
    \E u \in UserLists, fp \in EnsureFailPoints : Begin("save_users", u, <<>>, fp)
call_save_data ==
    \E u \in UserLists, t \in TxnLists, fp \in EnsureFailPoints :
        Begin("save_data", u, t, fp)
call_load_users ==
    \E fp \in EnsureFailPoints : Begin("load_users", <<>>, <<>>, fp)
call_load_data ==
    \E fp \in EnsureFailPoints : Begin("load_data", <<>>, <<>>, fp)

(* _make_backup(f) called on its own: it does not call ensure_data_files *)
call_make_backup ==
    /\ pc = "idle"
    /\ op' = "_make_backup"
    /\ \E f \in Files : pf' = f
    /\ pc' = "backup"
    /\ pre' = live
    /\ warnings' = 0
    /\ faulted' = FALSE
    /\ bfail' = [f \in Files |-> FALSE]
    /\ UNCHANGED <<rot, app, money, dataDir, backupDir, live, tmp, backups, clock, arg,
                   restored, ret, saved, saves, track, faults, corrupts>>

----------------------------------------------------------------------------
(* _make_backup(f), first half: shutil.copy2(file_path, backup_path).      *)
(* Outcomes: the copy is made ("ok"); it fails before the backup file is   *)
(* opened ("fail_open": nothing written); it fails while writing           *)
(* ("fail_write": a truncated backup file is left under the new name).     *)
(* On OSError the warning is printed, None is returned and rotation is     *)
(* skipped.                                                                *)
(* A backup step whose failure ends the enclosing call with an error *)
BackupFailureRaises(f, result) ==
    IF result = "None" THEN Finish(Raised("backup"))
    ELSE IF op = "_make_backup" THEN Finish(Returned(result, <<>>, <<>>))
    ELSE IF op = "save_data" /\ f = USERS_FILE
    THEN Goto("backup", TXNS_FILE)
    ELSE Goto("write", USERS_FILE)

(* What follows _make_backup(f), which returned result ("None" or the      *)
(* "path" of the backup): a direct caller gets the result; save_users and  *)
(* save_data ignore it and go on.                                          *)
AfterBackup(f, result) ==
    IF op = "_make_backup" THEN Finish(Returned(result, <<>>, <<>>))
    ELSE IF op = "save_data" /\ f = USERS_FILE
    THEN Goto("backup", TXNS_FILE)
    ELSE Goto("write", USERS_FILE)

CopyOutcomes == {"ok", "fail_open", "fail_write"}

_make_backup(f, out) ==
    LET name == _backup_filename(clock) IN
    IF ~Exists(live[f]) THEN backups[f]
    ELSE IF out = "ok" THEN [backups[f] EXCEPT ![name] = live[f]]
    ELSE IF out = "fail_write" THEN [backups[f] EXCEPT ![name] = Partial]
    ELSE backups[f]

(* A backup made by moving the live file into the backup directory *)
MovedSource(f) == Absent

(* shutil.copy2 reads its source and leaves it as it is *)
copy2_source(f) == live[f]

make_backup_copy ==
    /\ pc = "backup"
    /\ \E out \in CopyOutcomes :
        /\ backups' = [backups EXCEPT ![pf] = _make_backup(pf, out)]
        /\ live' = [live EXCEPT ![pf] = copy2_source(pf)]
        /\ IF ~Exists(live[pf])
           THEN /\ out = "ok" /\ NoFault /\ warnings' = warnings
                /\ AfterBackup(pf, "None")
           ELSE IF out = "ok"
                THEN NoFault /\ warnings' = warnings /\ Goto("rotate", pf)
           ELSE Fault /\ warnings' = warnings + 1 /\ AfterBackup(pf, "None")
        /\ bfail' = [bfail EXCEPT ![pf] = (out # "ok")]
    /\ UNCHANGED <<rot, app, money, dataDir, backupDir, tmp, clock, op, arg, restored,
                   pre, saved, saves, track, corrupts>>

(* _make_backup(f), second half: _rotate_backups(file_path, keep).  Each   *)
(* os.remove of a victim may raise OSError, which is ignored.              *)
make_backup_rotate ==
    /\ pc = "rotate"
    /\ \E failing \in SUBSET RotateVictims(backups[pf], _BACKUP_KEEP) :
        /\ Cardinality(failing) <= faults
        /\ faults' = faults - Cardinality(failing)
        /\ faulted' = (faulted \/ failing # {})
        /\ bfail' = [bfail EXCEPT ![pf] = (failing # {})]
        /\ backups' = [backups EXCEPT
                         ![pf] = _rotate_backups(backups[pf], _BACKUP_KEEP, failing)]
    /\ AfterBackup(pf, "path")
    /\ UNCHANGED <<rot, app, money, dataDir, backupDir, live, tmp, clock, op, arg, restored,
                   warnings, pre, saved, saves, track, corrupts>>

----------------------------------------------------------------------------
(* The try block of save_users / save_data: write <file>.tmp, then         *)
(* os.replace(tmp, file).  An OSError in either sends control to the       *)
(* except clause, which restores users.json first.                         *)
WriteOutcomes == {"ok", "fail_open", "fail_write"}

write_tmp ==
    /\ pc = "write"
    /\ \E out \in WriteOutcomes :
        /\ tmp' = [tmp EXCEPT ![pf] =
                     IF out = "ok" THEN json_dump(arg[pf])
                     ELSE IF out = "fail_write" THEN Partial
                     ELSE tmp[pf]]
        /\ IF out = "ok"
           THEN NoFault /\ Goto("replace", pf)
           ELSE Fault /\ Goto("restore", USERS_FILE)
    /\ UNCHANGED <<rot, app, money, dataDir, backupDir, live, backups, clock, op, arg, restored,
                   warnings, pre, saved, saves, track, corrupts, bfail>>

(* os.replace: one rename; it either happens or raises and changes nothing *)
os_replace(f, ok) ==
    IF ok THEN [live |-> [live EXCEPT ![f] = tmp[f]],
                tmp |-> [tmp EXCEPT ![f] = Absent]]
    ELSE [live |-> live, tmp |-> tmp]

replace_tmp ==
    /\ pc = "replace"
    /\ \E ok \in BOOLEAN :
        /\ live' = os_replace(pf, ok).live
        /\ tmp' = os_replace(pf, ok).tmp
        /\ IF ~ok
           THEN Fault /\ Goto("restore", USERS_FILE) /\ saved' = saved
           ELSE IF op = "save_data" /\ pf = USERS_FILE
                THEN NoFault /\ Goto("write", TXNS_FILE) /\ saved' = saved
           ELSE /\ NoFault
                /\ Finish(Returned("-", <<>>, <<>>))
                /\ saved' = <<arg.users>>
    /\ UNCHANGED <<rot, app, money, dataDir, backupDir, backups, clock, op, arg, restored,
                   warnings, pre, saves, track, corrupts, bfail>>

----------------------------------------------------------------------------
(* A load_data whose recovery restores users.json alone *)
AfterRestoreUsersOnly(f, res) ==
    CASE op = "save_users" ->
            Finish(Raised("write")) /\ warnings' = warnings /\ saves' = <<>>
      [] op = "save_data" ->
            /\ IF f = USERS_FILE THEN Goto("restore", TXNS_FILE)
               ELSE Finish(Raised("write"))
            /\ warnings' = warnings /\ saves' = saves
      [] op = "load_users" ->
            /\ IF res[USERS_FILE]
               THEN Goto("reread", USERS_FILE) /\ warnings' = warnings
               ELSE /\ Finish(Returned("Empty", <<>>, <<>>))
                    /\ warnings' = warnings + 1
            /\ saves' = saves
      [] OTHER ->
            /\ IF res[USERS_FILE] THEN Goto("reread", USERS_FILE)
               ELSE Finish(Returned("Empty", <<>>, <<>>))
            /\ warnings' = warnings /\ saves' = saves

(* A save whose except clause returns normally once the restore succeeded *)
AfterRestoreSwallows(f, res) ==
    /\ op \in SaveOps
    /\ IF op = "save_data" /\ f = USERS_FILE THEN Goto("restore", TXNS_FILE)
       ELSE IF \A g \in (IF op = "save_users" THEN {USERS_FILE} ELSE Files) : res[g]
            THEN Finish(Returned("-", <<>>, <<>>))
       ELSE Finish(Raised("write"))
    /\ warnings' = warnings
    /\ saves' = IF op = "save_users" THEN <<>> ELSE saves

(* What follows restore_latest_backup(f), whose results so far are res:    *)
(*   save_users: raise RuntimeError;                                       *)
(*   save_data:  restore transactions.json next, then raise;               *)
(*   load_users: retry the read if restored, else warn and return [];      *)
(*   load_data:  restore transactions.json next; then retry the read if    *)
(*               either file was restored, else return ([], []).           *)
AfterRestore(f, res) ==
    CASE op = "save_users" ->
            Finish(Raised("write")) /\ warnings' = warnings /\ saves' = <<>>
      [] op = "save_data" ->
            /\ IF f = USERS_FILE THEN Goto("restore", TXNS_FILE)
               ELSE Finish(Raised("write"))
            /\ warnings' = warnings /\ saves' = saves
      [] op = "load_users" ->
            /\ IF res[USERS_FILE]
               THEN Goto("reread", USERS_FILE) /\ warnings' = warnings
               ELSE /\ Finish(Returned("Empty", <<>>, <<>>))
                    /\ warnings' = warnings + 1
            /\ saves' = saves
      [] OTHER ->
            /\ IF f = USERS_FILE THEN Goto("restore", TXNS_FILE)
               ELSE IF res[USERS_FILE] \/ res[TXNS_FILE]
                    THEN Goto("reread", USERS_FILE)
               ELSE Finish(Returned("Empty", <<>>, <<>>))
            /\ warnings' = warnings /\ saves' = saves

(* restore_latest_backup(f): shutil.copy2(latest, file_path) opens the     *)
(* live file for writing, which truncates it, and then copies the bytes.   *)
(* Outcomes of the first half: no backup (False); the open fails (False,   *)
(* nothing changed); the live file is opened and truncated.                *)
RestoreOutcomes == {"opened", "fail_open"}

restore_latest_backup_open ==
    /\ pc = "restore"
    /\ LET latest == _latest_backup_for(backups[pf]) IN
       \E out \in RestoreOutcomes :
        IF latest = 0
        THEN /\ out = "opened"
             /\ NoFault
             /\ live' = live
             /\ restored' = [restored EXCEPT ![pf] = FALSE]
             /\ AfterRestore(pf, restored')
        ELSE IF out = "fail_open"
        THEN /\ Fault
             /\ live' = live
             /\ restored' = [restored EXCEPT ![pf] = FALSE]
             /\ AfterRestore(pf, restored')
        ELSE /\ NoFault
             /\ live' = [live EXCEPT ![pf] = Partial]
             /\ restored' = restored
             /\ Goto("restore_copy", pf)
             /\ warnings' = warnings /\ saves' = saves
    /\ UNCHANGED <<rot, app, money, dataDir, backupDir, tmp, backups, clock, op, arg, pre,
                   saved, track, corrupts, bfail>>

(* A restore that copies the latest backup of every file over its live file *)
RestoreEveryFile(f, ok) ==
    IF ok THEN [g \in Files |->
                  IF BackupFiles(backups[g]) = {} THEN live[g]
                  ELSE backups[g][_latest_backup_for(backups[g])]]
    ELSE live

(* A restore that copies the oldest backup *)
RestoreOldest(f, ok) ==
    IF ok THEN [live EXCEPT ![f] = backups[f][OldestBackupFor(backups[f])]]
    ELSE live

(* second half: the bytes are copied (True) or the copy fails midway       *)
(* (False, the live file stays truncated)                                  *)
restore_copy(f, ok) ==
    IF ok THEN [live EXCEPT ![f] = backups[f][_latest_backup_for(backups[f])]]
    ELSE live

restore_latest_backup_copy ==
    /\ pc = "restore_copy"
    /\ \E ok \in BOOLEAN :
        /\ IF ok THEN NoFault ELSE Fault
        /\ live' = restore_copy(pf, ok)
        /\ restored' = [restored EXCEPT ![pf] = ok]
        /\ AfterRestore(pf, restored')
    /\ UNCHANGED <<rot, app, money, dataDir, backupDir, tmp, backups, clock, op, arg, pre,
                   saved, track, corrupts, bfail>>

----------------------------------------------------------------------------
(* The first try block of load_users / load_data: open and json.load the   *)
(* file(s), then check isinstance(..., list).  readOk = FALSE is an        *)
(* OSError while opening or reading.                                       *)
LoadedValue(readOk) ==
    LET u == json_load(live[USERS_FILE])
        t == json_load(live[TXNS_FILE])
    IN  IF op = "load_users"
        THEN [ok |-> readOk /\ u.ok, users |-> u.val, txns |-> <<>>]
        ELSE [ok |-> readOk /\ u.ok /\ t.ok, users |-> u.val, txns |-> t.val]

(* a failure prints the warning and enters recovery *)
load_read ==
    /\ pc = "read"
    /\ \E readOk \in BOOLEAN :
        LET r == LoadedValue(readOk) IN
        /\ IF readOk THEN NoFault ELSE Fault
        /\ IF r.ok
           THEN Finish(Returned("Loaded", r.users, r.txns)) /\ warnings' = warnings
           ELSE Goto("restore", USERS_FILE) /\ warnings' = warnings + 1
    /\ UNCHANGED <<rot, app, money, dataDir, backupDir, live, tmp, backups, clock, op, arg,
                   restored, pre, saved, saves, track, corrupts, bfail>>

(* The retry after a restore.  load_users: on any failure the second       *)
(* warning is printed and [] returned.  load_data: on any failure          *)
(* "Restore failed ... Starting with empty data." is printed (a line not   *)
(* tagged Warning) and ([], []) returned.                                  *)
load_reread ==
    /\ pc = "reread"
    /\ \E readOk \in BOOLEAN :
        LET r == LoadedValue(readOk) IN
        /\ IF readOk THEN NoFault ELSE Fault
        /\ IF r.ok
           THEN Finish(Returned("Loaded", r.users, r.txns)) /\ warnings' = warnings
           ELSE /\ Finish(Returned("Empty", <<>>, <<>>))
                /\ warnings' = IF op = "load_users" THEN warnings + 1 ELSE warnings
    /\ UNCHANGED <<rot, app, money, dataDir, backupDir, live, tmp, backups, clock, op, arg,
                   restored, pre, saved, saves, track, corrupts, bfail>>

----------------------------------------------------------------------------
(* The caller has taken the outcome of the call; the call's locals are gone *)
Return ==
    /\ pc = "done"
    /\ pc' = "idle"
    /\ op' = "none"
    /\ arg' = NoArg
    /\ restored' = [f \in Files |-> FALSE]
    /\ warnings' = 0
    /\ ret' = NoRet
    /\ pre' = [f \in Files |-> Absent]
    /\ faulted' = FALSE
    /\ bfail' = [f \in Files |-> FALSE]
    /\ UNCHANGED <<rot, app, money, dataDir, backupDir, live, tmp, backups, clock, pf, saved,
                   saves, track, faults, corrupts>>

----------------------------------------------------------------------------
(* The environment *)

(* A second passes.  The clock is read only by _backup_filename, so it is  *)
(* enough to let it advance between calls and, inside save_data, between   *)
(* the backup of users.json and the backup of transactions.json.           *)
Advance(max) ==
    /\ pc = "idle" \/ (pc = "backup" /\ pf = TXNS_FILE)
    /\ clock < max
    /\ clock' = clock + 1
    /\ UNCHANGED <<rot, app, money, dataDir, backupDir, live, tmp, backups, pc, pf, op, arg,
                   restored, warnings, ret, pre, saved, saves, track, faulted,
                   faults, corrupts, bfail>>

Tick == Advance(MaxClock)
TickU == Advance(MaxClockU)
TickS == Advance(MaxClockS)
TickR == Advance(_BACKUP_KEEP + MaxTicksR)

(* Between two calls a live file is damaged from outside the process: its  *)
(* text becomes malformed JSON, or JSON whose top-level value is no list.  *)
CorruptTexts == {Malformed, JsonObject}

Corrupt ==
    /\ pc = "idle"
    /\ corrupts > 0
    /\ \E f \in Files, text \in CorruptTexts :
        /\ Exists(live[f])
        /\ live' = [live EXCEPT ![f] = text]
        /\ saved' = IF f = USERS_FILE THEN <<>> ELSE saved
    /\ corrupts' = corrupts - 1
    /\ saves' = <<>>
    /\ UNCHANGED <<rot, app, money, dataDir, backupDir, tmp, backups, clock, pc, pf, op, arg,
                   restored, warnings, ret, pre, track, faulted, faults, bfail>>

----------------------------------------------------------------------------
Steps ==
    \/ make_backup_copy
    \/ make_backup_rotate
    \/ write_tmp
    \/ replace_tmp
    \/ restore_latest_backup_open
    \/ restore_latest_backup_copy
    \/ Return

Next ==
    \/ Tick
    \/ Corrupt
    \/ call_ensure_data_files
    \/ call_save_users
    \/ call_save_data
    \/ call_load_users
    \/ call_load_data
    \/ Steps
    \/ load_read
    \/ load_reread

Spec == Init /\ [][Next]_vars

(* The calls that work on users.json alone *)
InitUsers ==
    /\ InitFresh
    /\ InitCall
    /\ track = FALSE
    /\ faults = MaxFaultsU
    /\ corrupts = MaxCorrupt

NextUsers ==
    \/ TickU
    \/ Corrupt
    \/ call_ensure_data_files
    \/ call_save_users
    \/ call_load_users
    \/ Steps
    \/ load_read
    \/ load_reread

SpecUsers == InitUsers /\ [][NextUsers]_vars

(* Initialisation and the two save functions, no external corruption *)
InitSave ==
    /\ InitFresh
    /\ InitCall
    /\ track = FALSE
    /\ faults = MaxFaultsS
    /\ corrupts = 0

NextSave ==
    \/ TickS
    \/ call_ensure_data_files
    \/ call_save_users
    \/ call_save_data
    \/ Steps

SpecSave == InitSave /\ [][NextSave]_vars

(* The save functions on a data directory that holds _BACKUP_KEEP - 1 or      *)
(* _BACKUP_KEEP backups of each file, so that rotation has to prune        *)
InitRetention ==
    /\ \E n \in {_BACKUP_KEEP - 1, _BACKUP_KEEP} : InitAfterSaves(n)
    /\ InitCall
    /\ track = FALSE
    /\ faults = MaxFaultsR
    /\ corrupts = 0

NextRetention ==
    \/ TickR
    \/ call_save_users
    \/ call_save_data
    \/ Steps

SpecRetention == InitRetention /\ [][NextRetention]_vars

(* The backup step, called on its own and inside the two save functions *)
InitBackup ==
    /\ InitFresh
    /\ InitCall
    /\ track = FALSE
    /\ faults = MaxFaults
    /\ corrupts = 0

NextBackup ==
    \/ Tick
    \/ call_make_backup
    \/ call_save_users
    \/ call_save_data
    \/ Steps

SpecBackup == InitBackup /\ [][NextBackup]_vars

(* Saves and loads within one second on a data directory that is fresh or  *)
(* holds up to MaxBackupsT backups of each file, with external corruption: *)
(* every way into restore_latest_backup                                    *)
InitRestore ==
    /\ InitFresh \/ \E n \in 1..MaxBackupsT : InitAfterSaves(n)
    /\ InitCall
    /\ track = FALSE
    /\ faults = MaxFaultsT
    /\ corrupts = MaxCorrupt

NextRestore ==
    \/ Corrupt
    \/ call_save_users
    \/ call_save_data
    \/ call_load_users
    \/ call_load_data
    \/ Steps
    \/ load_read
    \/ load_reread

SpecRestore == InitRestore /\ [][NextRestore]_vars

(* Successive save_users calls in which no I/O operation fails, with the   *)
(* saves history recorded                                                  *)
InitHistory ==
    /\ InitFresh
    /\ InitCall
    /\ track = TRUE
    /\ faults = 0
    /\ corrupts = 0

NextHistory ==
    \/ TickR
    \/ call_save_users
    \/ make_backup_copy
    \/ make_backup_rotate
    \/ write_tmp
    \/ replace_tmp
    \/ Return

SpecHistory == InitHistory /\ [][NextHistory]_vars

(* The load functions on a data directory whose live files hold any shape  *)
(* of text: a list of records, malformed text, a JSON object, a JSON       *)
(* scalar, a JSON array whose elements are not objects.  Each file has no  *)
(* backup or one backup holding a list of records.                         *)
Records == {u1, u2, t1}
JsonScalar == <<"scalar", <<>>>>
ScalarArray == json_dump(<<PyInt(<<"7">>)>>)
Shapes == {EmptyArray, json_dump(<<u1>>), Malformed, JsonObject, JsonScalar,
           ScalarArray}

InitFormat ==
    /\ dataDir = TRUE
    /\ backupDir = TRUE
    /\ live \in [Files -> Shapes]
    /\ tmp = [f \in Files |-> Absent]
    /\ \E B \in SUBSET Files :
        backups = [f \in Files |-> [t \in Ts |->
                     IF f \in B /\ t = 1 THEN json_dump(<<u2>>) ELSE Absent]]
    /\ clock = 1
    /\ InitCall
    /\ track = FALSE
    /\ faults = 0
    /\ corrupts = 0

NextFormat ==
    \/ call_load_users
    \/ call_load_data
    \/ load_read
    \/ load_reread
    \/ restore_latest_backup_open
    \/ restore_latest_backup_copy
    \/ Return

SpecFormat == InitFormat /\ [][NextFormat]_vars

(* save_users followed by load_users, with no I/O failure and no outside   *)
(* change, on lists of at most MaxLen records whose fields are strings,     *)
(* booleans, ints and floats                                                *)
FieldRecords ==
    {PyDict(<< <<"user_id", PyStr("U001")>>, <<"active", PyBool("True")>> >>),
     PyDict(<< <<"count", PyInt(<<"5", "0">>)>>,
               <<"amount", PyFloat(<<"5", "0", ".", "0">>)>> >>),
     PyDict(<< <<"amount", nan>> >>)}
FieldLists == UNION {[1..n -> FieldRecords] : n \in 0..MaxLen}

call_save_users_fields ==
    \E u \in FieldLists : Begin("save_users", u, <<>>, "none")

InitRoundTrip ==
    /\ InitFresh
    /\ InitCall
    /\ track = FALSE
    /\ faults = 0
    /\ corrupts = 0

NextRoundTrip ==
    \/ call_save_users_fields
    \/ make_backup_copy
    \/ make_backup_rotate
    \/ write_tmp
    \/ replace_tmp
    \/ call_load_users
    \/ load_read
    \/ Return

SpecRoundTrip == InitRoundTrip /\ [][NextRoundTrip]_vars

----------------------------------------------------------------------------
(* The features that persist monetary amounts.  An amount is the text      *)
(* typed at the prompt, kept as its characters: Decimal(text) holds every  *)
(* digit of it and str() gives them back.                                  *)
Digit == {"0", "1", "2", "3", "4", "5", "6", "7", "8", "9"}
Chars(int, frac) == int \o <<".">> \o frac
Amounts ==
    {<<"5", "0">>,
     Chars(<<"0">>, <<"1">>),
     Chars(<<"1">>, <<"1", "0">>),
     Chars(<<"1", "2", "3", "4">>,
           <<"5", "6", "7", "8", "9", "0", "1", "2", "3", "4", "5", "6", "7",
             "0", "1", "2">>)}

HasPoint(c) == \E i \in 1..Len(c) : c[i] = "."

(* the digits without the zeros that end a fraction: 1.10 is 1.1 *)
RECURSIVE StripZeros(_)
StripZeros(c) ==
    IF ~HasPoint(c) THEN c
    ELSE IF c[Len(c)] = "0" THEN StripZeros(SubSeq(c, 1, Len(c) - 1))
    ELSE IF c[Len(c)] = "." THEN SubSeq(c, 1, Len(c) - 1)
    ELSE c

(* the significant digits among the first k characters *)
FirstNonZero(c) ==
    IF \E i \in 1..Len(c) : c[i] \in Digit \ {"0"}
    THEN CHOOSE i \in 1..Len(c) :
            /\ c[i] \in Digit \ {"0"}
            /\ \A j \in 1..(i - 1) : c[j] \notin Digit \ {"0"}
    ELSE Len(c) + 1
SigCount(c, k) == Cardinality({i \in FirstNonZero(c)..k : c[i] \in Digit})

(* float(amount) followed by repr, as json.dump writes a float: a double   *)
(* holds a decimal of up to 15 significant digits so that the same decimal *)
(* is printed back, and repr never prints more than FloatReprDigits        *)
(* significant digits.  The digits beyond them are lost (the decimal point *)
(* is taken to lie before them); an integral value is printed with ".0".   *)
FloatReprDigits == 17
float_repr(c) ==
    LET n == StripZeros(c)
        kept == IF SigCount(n, Len(n)) <= FloatReprDigits THEN n
                ELSE StripZeros(SubSeq(n, 1,
                        CHOOSE k \in 1..Len(n) :
                            n[k] \in Digit /\ SigCount(n, k) = FloatReprDigits))
    IN  IF HasPoint(kept) THEN kept ELSE kept \o <<".", "0">>

(* What each feature hands to json for an amount: add_transaction and      *)
(* add_bill store float(amount); _save_budgets and _save_goals store       *)
(* str(amount) of the Decimal.                                             *)
FloatFeatures == {"add_transaction", "add_bill"}
StrFeatures == {"set_monthly_budget", "add_goal"}
serializable(feature, a) ==
    IF feature \in FloatFeatures THEN PyFloat(float_repr(a)) ELSE PyStr(a)

(* data_manager.save_json / load_json: the values of a collection encoded  *)
(* to the file and decoded from it                                         *)
save_json(collection) == [i \in 1..Len(collection) |-> dump_value(collection[i])]
load_json(disk) == [i \in 1..Len(disk) |-> load_value(disk[i])]

(* Decimal(str(value)) of a loaded value: safe_amount, and the decoding at *)
(* the import of budget.py and save_goals.py                               *)
safe_amount(v) == v[2]

(* Decimal equality is by value *)
DecimalEq(a, b) == StripZeros(a) = StripZeros(b)

(* A feature takes an amount typed by the user, appends the record to its  *)
(* collection and saves the collection.                                    *)
TakeAmount(feature) ==
    /\ pc = "idle"
    /\ ~money.restarted
    /\ money.feature \in {"none", feature}
    /\ Len(money.typed) < MaxLen
    /\ \E a \in Amounts :
        LET mem == Append(money.memory, serializable(feature, a)) IN
        money' = [feature |-> feature,
                  typed |-> Append(money.typed, a),
                  memory |-> mem,
                  disk |-> save_json(mem),
                  reloaded |-> <<>>,
                  restarted |-> FALSE]
    /\ UNCHANGED <<rot, app, dataDir, backupDir, live, tmp, backups, clock, pc, pf, op,
                   arg, restored, warnings, ret, pre, saved, saves, track,
                   faulted, bfail, faults, corrupts>>

add_transaction == TakeAmount("add_transaction")
add_bill == TakeAmount("add_bill")
set_monthly_budget == TakeAmount("set_monthly_budget")
add_goal == TakeAmount("add_goal")

(* The program is started again: the collection is loaded from its file    *)
(* and its amounts are read as Decimals.                                   *)
restart ==
    /\ pc = "idle"
    /\ money.feature # "none"
    /\ ~money.restarted
    /\ money' = [money EXCEPT
                    !.memory = load_json(money.disk),
                    !.reloaded = [i \in 1..Len(money.disk) |->
                                    safe_amount(load_json(money.disk)[i])],
                    !.restarted = TRUE]
    /\ UNCHANGED <<rot, app, dataDir, backupDir, live, tmp, backups, clock, pc, pf, op,
                   arg, restored, warnings, ret, pre, saved, saves, track,
                   faulted, bfail, faults, corrupts>>

InitMoney ==
    /\ InitFresh
    /\ InitCall
    /\ track = FALSE
    /\ faults = 0
    /\ corrupts = 0

NextMoney ==
    \/ add_transaction
    \/ add_bill
    \/ set_monthly_budget
    \/ add_goal
    \/ restart

SpecMoney == InitMoney /\ [][NextMoney]_vars

----------------------------------------------------------------------------
(* _rotate_backups(file_path, keep), statement by statement: the sorted    *)
(* glob, then the while loop, one iteration a step.                        *)

(* sorted(glob.glob(pattern)): the names in ascending order *)
RECURSIVE sorted(_)
sorted(S) ==
    IF S = {} THEN <<>>
    ELSE LET m == CHOOSE x \in S : \A y \in S : x <= y
         IN  <<m>> \o sorted(S \ {m})

call_rotate_backups ==
    /\ pc = "idle"
    /\ \E f \in Files, keep \in 0..MaxKeep :
        /\ pf' = f
        /\ rot' = [files |-> sorted(BackupFiles(backups[f])),
                   keep |-> keep,
                   found |-> BackupFiles(backups[f]),
                   attempted |-> <<>>]
    /\ op' = "_rotate_backups"
    /\ pc' = "rotating"
    /\ UNCHANGED <<app, money, dataDir, backupDir, live, tmp, backups, clock,
                   arg, restored, warnings, ret, pre, saved, saves, track,
                   faulted, bfail, faults, corrupts>>

(* a loop that also goes on while as many files as keep are left *)
LoopWhileNotFewer(files, keep) == Len(files) > 0 /\ Len(files) >= keep

(* while len(files) > keep *)
rotate_condition(files, keep) == Len(files) > keep

(* old = files.pop(0); os.remove(old), whose OSError is passed over;       *)
(* when the condition fails the function returns None                      *)
rotate_loop ==
    /\ pc = "rotating"
    /\ IF rotate_condition(rot.files, rot.keep)
       THEN LET old == Head(rot.files) IN
            /\ rot' = [rot EXCEPT !.files = Tail(rot.files),
                                  !.attempted = Append(rot.attempted, old)]
            /\ \E removed \in BOOLEAN :
                backups' = IF removed THEN [backups EXCEPT ![pf][old] = Absent]
                           ELSE backups
            /\ UNCHANGED <<pc, pf, ret>>
       ELSE /\ pc' = "done"
            /\ ret' = Returned("None", <<>>, <<>>)
            /\ UNCHANGED <<pf, rot, backups>>
    /\ UNCHANGED <<app, money, dataDir, backupDir, live, tmp, clock, op, arg,
                   restored, warnings, pre, saved, saves, track, faulted, bfail,
                   faults, corrupts>>

(* any set of backups of each file, the live files present *)
InitRotate ==
    /\ dataDir = TRUE
    /\ backupDir = TRUE
    /\ live = [f \in Files |-> EmptyArray]
    /\ tmp = [f \in Files |-> Absent]
    /\ \E have \in [Files -> SUBSET (1..MaxBackupsRot)] :
        backups = [f \in Files |-> [t \in Ts |->
                     IF t \in have[f] THEN EmptyArray ELSE Absent]]
    /\ clock = 1
    /\ InitCall
    /\ track = FALSE
    /\ faults = 0
    /\ corrupts = 0

NextRotate ==
    \/ call_rotate_backups
    \/ rotate_loop
    \/ Return

SpecRotate == InitRotate /\ [][NextRotate]_vars

----------------------------------------------------------------------------
(* The root-level data_manager.py.  Its backups lie next to the live files *)
(* (<file>.bak_<ts>) and it has no backup directory, no rotation and no    *)
(* restore.                                                                *)

(* ensure_data_files: makedirs(DATA_DIR), then each missing file *)
RootEnsureFailPoints == EnsureFailPoints \ {"backup"}
root_ensure_data_files(fp) ==
    [ok |-> fp = "none",
     dataDir |-> dataDir \/ EnsureReaches(1, fp),
     live |-> [f \in Files |->
                 IF f = USERS_FILE THEN EnsureFile(f, 3, fp)
                 ELSE EnsureFile(f, 5, fp)]]

(* save_data: ensure_data_files outside the try block, ts read once *)
root_call_save_data ==
    /\ pc = "idle"
    /\ \E u \in UserLists, t \in TxnLists, fp \in RootEnsureFailPoints :
        LET e == root_ensure_data_files(fp) IN
        /\ op' = "root_save_data"
        /\ arg' = [users |-> u, txns |-> t]
        /\ pre' = live
        /\ dataDir' = e.dataDir
        /\ live' = e.live
        /\ IF fp = "none"
           THEN faults' = faults /\ faulted' = FALSE
           ELSE faults > 0 /\ faults' = faults - 1 /\ faulted' = TRUE
        /\ IF e.ok THEN pc' = "root_backup" /\ pf' = USERS_FILE /\ ret' = NoRet
           ELSE Finish(Raised("init"))
    /\ warnings' = 0
    /\ saved' = <<>>
    /\ UNCHANGED <<rot, app, money, backupDir, tmp, backups, clock, restored, saves,
                   track, bfail, corrupts>>

(* the backup loop: os.replace(file_path, backup_path) renames the live    *)
(* file to its backup name; an OSError is printed and the loop goes on     *)
root_backup(f, ok) ==
    IF Exists(live[f]) /\ ok
    THEN [live |-> [live EXCEPT ![f] = Absent],
          backups |-> [backups EXCEPT ![f][_backup_filename(clock)] = live[f]]]
    ELSE [live |-> live, backups |-> backups]

root_backup_replace ==
    /\ pc = "root_backup"
    /\ \E ok \in BOOLEAN :
        /\ ok \/ Exists(live[pf])
        /\ live' = root_backup(pf, ok).live
        /\ backups' = root_backup(pf, ok).backups
        /\ IF ok THEN NoFault /\ warnings' = warnings
           ELSE Fault /\ warnings' = warnings + 1
    /\ IF pf = USERS_FILE THEN Goto("root_backup", TXNS_FILE)
       ELSE Goto("root_write", USERS_FILE)
    /\ UNCHANGED <<rot, app, money, dataDir, backupDir, tmp, clock, op, arg, restored,
                   pre, saved, saves, track, bfail, corrupts>>

(* the try block: an OSError anywhere in it is re-raised as RuntimeError *)
root_write_tmp ==
    /\ pc = "root_write"
    /\ \E out \in WriteOutcomes :
        /\ tmp' = [tmp EXCEPT ![pf] =
                     IF out = "ok" THEN json_dump(arg[pf])
                     ELSE IF out = "fail_write" THEN Partial
                     ELSE tmp[pf]]
        /\ IF out = "ok" THEN NoFault /\ Goto("root_replace", pf)
           ELSE Fault /\ Finish(Raised("write"))
    /\ UNCHANGED <<rot, app, money, dataDir, backupDir, live, backups, clock, op, arg,
                   restored, warnings, pre, saved, saves, track, bfail, corrupts>>

root_replace_tmp ==
    /\ pc = "root_replace"
    /\ \E ok \in BOOLEAN :
        /\ live' = os_replace(pf, ok).live
        /\ tmp' = os_replace(pf, ok).tmp
        /\ IF ~ok THEN Fault /\ Finish(Raised("write")) /\ saved' = saved
           ELSE IF pf = USERS_FILE
                THEN NoFault /\ Goto("root_write", TXNS_FILE) /\ saved' = saved
           ELSE NoFault /\ Finish(Returned("-", <<>>, <<>>))
                        /\ saved' = <<arg.users>>
    /\ UNCHANGED <<rot, app, money, dataDir, backupDir, backups, clock, op, arg, restored,
                   warnings, pre, saves, track, bfail, corrupts>>

(* load_data on the files as they are, nothing failing: ensure_data_files  *)
(* creates what is missing, both files are decoded and required to be      *)
(* lists; any failure gives ([], []).                                      *)
root_load_data(files, readOk) ==
    LET ensured == [f \in Files |-> IF Exists(files[f]) THEN files[f] ELSE EmptyArray]
        u == json_load(ensured[USERS_FILE])
        t == json_load(ensured[TXNS_FILE])
    IN  IF readOk /\ u.ok /\ t.ok
        THEN [users |-> u.val, txns |-> t.val]
        ELSE [users |-> <<>>, txns |-> <<>>]

root_call_load_data ==
    /\ pc = "idle"
    /\ \E fp \in RootEnsureFailPoints, readOk \in BOOLEAN :
        LET e == root_ensure_data_files(fp)
            r == root_load_data(e.live, readOk)
        IN
        /\ fp = "none" \/ readOk
        /\ dataDir' = e.dataDir
        /\ live' = e.live
        /\ pre' = live
        /\ IF fp = "none" /\ readOk
           THEN faults' = faults /\ faulted' = FALSE
           ELSE faults > 0 /\ faults' = faults - 1 /\ faulted' = TRUE
        /\ warnings' = IF e.ok /\ ~(readOk /\ json_load(e.live[USERS_FILE]).ok
                                            /\ json_load(e.live[TXNS_FILE]).ok)
                       THEN 1 ELSE 0
        /\ IF e.ok THEN Finish(Returned("-", r.users, r.txns))
           ELSE Finish(Raised("init"))
    /\ op' = "root_load_data"
    /\ arg' = NoArg
    /\ UNCHANGED <<rot, app, money, backupDir, tmp, backups, clock, restored, saved,
                   saves, track, bfail, corrupts>>

InitRoot ==
    /\ InitFresh
    /\ InitCall
    /\ track = FALSE
    /\ faults = MaxFaultsRoot
    /\ corrupts = 0

NextRoot ==
    \/ root_call_save_data
    \/ root_backup_replace
    \/ root_write_tmp
    \/ root_replace_tmp
    \/ root_call_load_data
    \/ Return

SpecRoot == InitRoot /\ [][NextRoot]_vars

----------------------------------------------------------------------------
(* core/auth.py.  app.users is the module's users list, a user a record of *)
(* its user_id and name (as characters) and its password; app.current_user *)
(* is <<>> for None or <<u>> for the user logged in; app.disk is what      *)
(* users.json holds; app.last is what the last function called did.        *)

(* the numeric part of an id: its digit characters read as one integer,    *)
(* 0 when it has none                                                      *)
DigitChars == <<"0", "1", "2", "3", "4", "5", "6", "7", "8", "9">>
RECURSIVE int_of_digits(_)
int_of_digits(id) ==
    IF id = <<>> THEN 0
    ELSE LET c == id[Len(id)]
             front == SubSeq(id, 1, Len(id) - 1)
         IN  IF c \in Digit
             THEN 10 * int_of_digits(front)
                    + (CHOOSE d \in 0..9 : DigitChars[d + 1] = c)
             ELSE int_of_digits(front)

(* "U" + str(n).zfill(3), f"TXN{n:03d}", for n below 1000 *)
format_id(prefix, n) ==
    prefix \o <<DigitChars[((n \div 100) % 10) + 1],
                DigitChars[((n \div 10) % 10) + 1],
                DigitChars[(n % 10) + 1]>>

(* str.lower on the letters used here *)
lower(name) ==
    [i \in 1..Len(name) |->
        CASE name[i] = "A" -> "a"
          [] name[i] = "B" -> "b"
          [] OTHER -> name[i]]

(* a counter that starts after the number of users *)
NextIdFromLength(user_list) == Len(user_list) + 1

(* _compute_next_user_id: 1 for an empty list, else the greatest numeric   *)
(* part plus one                                                           *)
_compute_next_user_id(user_list) ==
    IF user_list = <<>> THEN 1
    ELSE Max({int_of_digits(user_list[i].user_id) : i \in 1..Len(user_list)}) + 1

(* users lists that load_users can return: the user_ids pairwise distinct, *)
(* two names that differ only in case, an id without zero padding          *)
User(id, name, password) == [user_id |-> id, name |-> name, password |-> password]
LoadedUsers ==
    LET c == {User(<<"U", "0", "0", "1">>, <<"A", "n">>, "p"),
              User(<<"U", "0", "0", "2">>, <<"a", "n">>, "q"),
              User(<<"U", "7">>, <<"B", "o">>, "p")}
    IN  {<<>>} \cup {<<u>> : u \in c}
            \cup {l \in {<<u, v>> : u \in c, v \in c} : l[1] # l[2]}

InitAuth ==
    /\ InitFresh
    /\ InitIdle
    /\ track = FALSE
    /\ faults = 0
    /\ corrupts = 0
    /\ \E loaded \in LoadedUsers :
        app = [feature |-> "auth",
               users |-> loaded,
               next_id |-> _compute_next_user_id(loaded),
               current_user |-> <<>>,
               disk |-> [valid |-> TRUE, users |-> loaded],
               last |-> [op |-> "import", outcome |-> "-", save |-> "none",
                         entered |-> <<>>]]

AppUnchanged ==
    UNCHANGED <<dataDir, backupDir, live, tmp, backups, clock, pc, pf, op, arg,
                restored, warnings, ret, pre, saved, saves, track, faulted,
                bfail, faults, corrupts, money, rot>>

EnteredNames == {<<"a", "n">>, <<"b", "o">>, <<"C", "y">>}
EnteredPasswords == {"p", "q"}

(* what a registration whose save failed would leave if the append and the *)
(* counter were undone                                                     *)
RegistrationRolledBack(a, user, saveOk) ==
    IF saveOk
    THEN [a EXCEPT !.users = Append(a.users, user), !.next_id = a.next_id + 1]
    ELSE a

(* users.append(user); next_id = next_id + 1; _save_users(): the list and  *)
(* the counter are the same whether the save succeeds or not               *)
after_registration(a, user, saveOk) ==
    [a EXCEPT !.users = Append(a.users, user), !.next_id = a.next_id + 1]

(* register_user.  _save_users catches whatever save_users raises: a       *)
(* failed save leaves users.json as it was or truncated.                   *)
register_user ==
    /\ app.feature = "auth"
    /\ Len(app.users) < MaxUsers
    /\ \E name \in EnteredNames, password \in EnteredPasswords,
          confirm \in EnteredPasswords, saved_users \in {"ok", "kept", "truncated"} :
        IF password # confirm
        THEN app' = [app EXCEPT !.last = [op |-> "register_user",
                                         outcome |-> "mismatch", save |-> "none",
                                         entered |-> <<name, password, confirm>>]]
        ELSE IF \E i \in 1..Len(app.users) : lower(app.users[i].name) = lower(name)
        THEN app' = [app EXCEPT !.last = [op |-> "register_user",
                                         outcome |-> "exists", save |-> "none",
                                         entered |-> <<name, password, confirm>>]]
        ELSE LET saveOk == saved_users = "ok"
                 truncated == saved_users = "truncated"
                 user == User(format_id(<<"U">>, app.next_id), name, password)
                 mem == after_registration(app, user, saveOk)
                 list == mem.users
             IN  app' = [mem EXCEPT
                    !.disk = IF saveOk THEN [valid |-> TRUE, users |-> list]
                             ELSE IF truncated THEN [valid |-> FALSE, users |-> <<>>]
                             ELSE app.disk,
                    !.last = [op |-> "register_user", outcome |-> "registered",
                              save |-> IF saveOk THEN "ok" ELSE "failed",
                              entered |-> <<name, password, confirm>>]]
    /\ AppUnchanged

(* a login that asks for the name only *)
MatchNameOnly(user, name, password) == lower(user["name"]) = lower(name)

(* user["name"].lower() == name.lower() and user["password"] == password *)
login_match(user, name, password) ==
    lower(user["name"]) = lower(name) /\ user["password"] = password

(* login_user: the first user whose name matches ignoring case and whose   *)
(* password is the one entered                                             *)
login_user ==
    /\ app.feature \in {"auth", "transactions", "budget"}
    /\ \E name \in EnteredNames, password \in EnteredPasswords :
        LET hits == {i \in 1..Len(app.users) :
                        login_match(app.users[i], name, password)}
        IN  IF hits # {}
            THEN app' = [app EXCEPT
                    !.current_user = <<app.users[CHOOSE i \in hits :
                                            \A j \in hits : i <= j]>>,
                    !.last = [op |-> "login_user", outcome |-> "welcome",
                              save |-> "none",
                              entered |-> <<name, password>>]]
            ELSE app' = [app EXCEPT !.last = [op |-> "login_user",
                                             outcome |-> "invalid", save |-> "none",
                              entered |-> <<name, password>>]]
    /\ AppUnchanged

(* switch_profile: choice is the number entered, 0 standing for an input   *)
(* that is no number or is out of range below                              *)
switch_profile ==
    /\ app.feature = "auth"
    /\ \E choice \in 0..(MaxUsers + 1), password \in EnteredPasswords :
        IF app.users = <<>>
        THEN app' = [app EXCEPT !.last = [op |-> "switch_profile",
                                         outcome |-> "no users", save |-> "none",
                          entered |-> <<choice, password>>]]
        ELSE IF choice < 1 \/ choice > Len(app.users)
        THEN app' = [app EXCEPT !.last = [op |-> "switch_profile",
                                         outcome |-> "invalid", save |-> "none",
                          entered |-> <<choice, password>>]]
        ELSE IF password = app.users[choice].password
        THEN app' = [app EXCEPT
                !.current_user = <<app.users[choice]>>,
                !.last = [op |-> "switch_profile", outcome |-> "switched",
                          save |-> "none",
                          entered |-> <<choice, password>>]]
        ELSE app' = [app EXCEPT !.last = [op |-> "switch_profile",
                                         outcome |-> "incorrect", save |-> "none",
                          entered |-> <<choice, password>>]]
    /\ AppUnchanged

NextAuth ==
    \/ register_user
    \/ login_user
    \/ switch_profile

SpecAuth == InitAuth /\ [][NextAuth]_vars

----------------------------------------------------------------------------
(* core/transactions.py.  app.transactions is the module's list, a         *)
(* transaction a record of its transaction_id and user_id (as characters)  *)
(* and its amount; app.last.save is "none" when the function did not call  *)
(* _save_transactions, else how the save ended (its exception is caught).  *)

(* compute_next_id: the greatest numeric part of the ids that have digits, *)
(* 0 when there is none                                                    *)
compute_next_id(txns) ==
    Max({0} \cup {int_of_digits(txns[i].transaction_id) :
                    i \in {j \in 1..Len(txns) :
                            \E k \in 1..Len(txns[j].transaction_id) :
                                txns[j].transaction_id[k] \in Digit}})

(* a search by id alone *)
FindAnyOwner(txns, txn_id, uid) ==
    LET hits == {i \in 1..Len(txns) : txns[i].transaction_id = txn_id}
    IN  IF hits = {} THEN 0 ELSE CHOOSE i \in hits : \A j \in hits : i <= j

(* _find_tx(txn_id, require_owner=True): the index of the first            *)
(* transaction with this id, 0 for None; None as well when nobody is       *)
(* logged in (uid = <<>>) or that transaction has another user_id          *)
_find_tx(txns, txn_id, uid) ==
    LET hits == {i \in 1..Len(txns) : txns[i].transaction_id = txn_id}
        first == CHOOSE i \in hits : \A j \in hits : i <= j
    IN  IF hits = {} THEN 0
        ELSE IF uid = <<>> \/ txns[first].user_id # uid[1] THEN 0
        ELSE first

(* _current_user_id(): <<>> for None *)
_current_user_id ==
    IF app.current_user = <<>> THEN <<>> ELSE <<app.current_user[1].user_id>>

InitTxn ==
    /\ InitFresh
    /\ InitIdle
    /\ track = FALSE
    /\ faults = 0
    /\ corrupts = 0
    /\ \E loaded \in {<<>>, <<[transaction_id |-> <<"T", "X", "N", "0", "0", "1">>,
                               user_id |-> <<"U", "0", "0", "2">>, amount |-> 1]>>} :
        app = [feature |-> "transactions",
               users |-> <<User(<<"U", "0", "0", "1">>, <<"A", "n">>, "p"),
                           User(<<"U", "0", "0", "2">>, <<"B", "o">>, "q")>>,
               current_user |-> <<>>,
               transactions |-> loaded,
               next_id |-> compute_next_id(loaded) + 1,
               last |-> [op |-> "import", outcome |-> "-", save |-> "none",
                         entered |-> <<>>]]

EnteredAmounts == {1, 2}
EnteredTxnIds == {<<>>} \cup {format_id(<<"T", "X", "N">>, n) : n \in 1..MaxTxnId}

(* add_transaction *)
add_transaction_record ==
    /\ app.feature = "transactions"
    /\ app.next_id <= MaxTxnId
    /\ \E amount \in EnteredAmounts, saveOk \in BOOLEAN :
        IF app.current_user = <<>>
        THEN app' = [app EXCEPT !.last = [op |-> "add_transaction",
                        outcome |-> "not logged in", save |-> "none",
                        entered |-> <<amount>>]]
        ELSE app' = [app EXCEPT
                !.transactions = Append(@,
                    [transaction_id |-> format_id(<<"T", "X", "N">>, app.next_id),
                     user_id |-> app.current_user[1].user_id,
                     amount |-> amount]),
                !.next_id = @ + 1,
                !.last = [op |-> "add_transaction", outcome |-> "added",
                          save |-> IF saveOk THEN "ok" ELSE "failed",
                          entered |-> <<amount>>]]
    /\ AppUnchanged

(* edit_transaction: of the fields asked for, the amount *)
edit_transaction ==
    /\ app.feature = "transactions"
    /\ \E txn_id \in EnteredTxnIds, amount \in EnteredAmounts, saveOk \in BOOLEAN :
        LET tx == _find_tx(app.transactions, txn_id, _current_user_id)
            said(o, sv) == [op |-> "edit_transaction", outcome |-> o, save |-> sv,
                            entered |-> <<txn_id, amount>>]
        IN  IF app.current_user = <<>>
            THEN app' = [app EXCEPT !.last = said("not logged in", "none")]
            ELSE IF txn_id = <<>>
            THEN app' = [app EXCEPT !.last = said("no id", "none")]
            ELSE IF tx = 0
            THEN app' = [app EXCEPT !.last = said("not found", "none")]
            ELSE app' = [app EXCEPT
                    !.transactions[tx].amount = amount,
                    !.last = said("updated", IF saveOk THEN "ok" ELSE "failed")]
    /\ AppUnchanged

(* delete_transaction: transactions.remove(tx) removes the first           *)
(* transaction equal to tx                                                 *)
delete_transaction ==
    /\ app.feature = "transactions"
    /\ \E txn_id \in EnteredTxnIds, confirm \in {"yes", "no"}, saveOk \in BOOLEAN :
        LET txns == app.transactions
            tx == _find_tx(txns, txn_id, _current_user_id)
            said(o, sv) == [op |-> "delete_transaction", outcome |-> o, save |-> sv,
                            entered |-> <<txn_id, confirm>>]
        IN  IF app.current_user = <<>>
            THEN app' = [app EXCEPT !.last = said("not logged in", "none")]
            ELSE IF txn_id = <<>>
            THEN app' = [app EXCEPT !.last = said("no id", "none")]
            ELSE IF tx = 0
            THEN app' = [app EXCEPT !.last = said("not found", "none")]
            ELSE IF confirm = "yes"
            THEN LET k == CHOOSE i \in 1..Len(txns) :
                            /\ txns[i] = txns[tx]
                            /\ \A j \in 1..(i - 1) : txns[j] # txns[tx]
                 IN  app' = [app EXCEPT
                        !.transactions = SubSeq(txns, 1, k - 1)
                                            \o SubSeq(txns, k + 1, Len(txns)),
                        !.last = said("deleted", IF saveOk THEN "ok" ELSE "failed")]
            ELSE app' = [app EXCEPT !.last = said("cancelled", "none")]
    /\ AppUnchanged

NextTxn ==
    \/ login_user
    \/ add_transaction_record
    \/ edit_transaction
    \/ delete_transaction

SpecTxn == InitTxn /\ [][NextTxn]_vars

----------------------------------------------------------------------------
(* advanced_features/budget.py.  app.budgets is the module's list, a       *)
(* budget a record of its user_id, its month (the number of the calendar   *)
(* month that _current_month names) and its amount; app.last.save is       *)
(* "none" when the function did not call _save_budgets.                    *)

(* Decimal(text) and the test amount <= 0: the amount when the text is a   *)
(* number above zero, 0 when Decimal raises or ValueError is raised        *)
accepted_budget(text) ==
    LET signed == text # <<>> /\ text[1] = "-"
        body == IF signed THEN Tail(text) ELSE text
        number == body # <<>> /\ \A i \in 1..Len(body) : body[i] \in Digit
    IN  IF number /\ ~signed THEN int_of_digits(body) ELSE 0

(* a setter that appends every time *)
AppendBudget(list, uid, month, amount) ==
    Append(list, [user_id |-> uid, month |-> month, budget |-> amount])

(* the update loop and the append: the first record of this user and month *)
(* gets the amount, a new record is appended when there is none            *)
put_budget(list, uid, month, amount) ==
    LET hits == {i \in 1..Len(list) :
                    list[i].user_id = uid /\ list[i].month = month}
    IN  IF hits # {}
        THEN [list EXCEPT ![CHOOSE i \in hits : \A j \in hits : i <= j].budget = amount]
        ELSE Append(list, [user_id |-> uid, month |-> month, budget |-> amount])

InitBudget ==
    /\ InitFresh
    /\ InitIdle
    /\ track = FALSE
    /\ faults = 0
    /\ corrupts = 0
    /\ \E loaded \in {<<>>, <<[user_id |-> <<"U", "0", "0", "2">>,
                               month |-> 1, budget |-> 5]>>} :
        app = [feature |-> "budget",
               users |-> <<User(<<"U", "0", "0", "1">>, <<"A", "n">>, "p"),
                           User(<<"U", "0", "0", "2">>, <<"B", "o">>, "q")>>,
               current_user |-> <<>>,
               budgets |-> loaded,
               month |-> 1,
               last |-> [op |-> "import", outcome |-> "-", save |-> "none",
                         entered |-> <<>>]]

EnteredBudgets == {<<"a">>, <<"-", "5">>, <<"0">>, <<"5">>, <<"7">>, <<>>}

(* set_monthly_budget; what _save_budgets raises is not caught *)
budget_set_monthly_budget ==
    /\ app.feature = "budget"
    /\ \E text \in EnteredBudgets, saveOk \in BOOLEAN :
        LET amount == accepted_budget(text)
            said(o, sv) == [op |-> "set_monthly_budget", outcome |-> o, save |-> sv,
                            entered |-> <<text>>]
        IN  IF app.current_user = <<>>
            THEN app' = [app EXCEPT !.last = said("not logged in", "none")]
            ELSE IF amount = 0
            THEN app' = [app EXCEPT !.last = said("invalid", "none")]
            ELSE app' = [app EXCEPT
                    !.budgets = put_budget(@, app.current_user[1].user_id,
                                           app.month, amount),
                    !.last = said("set", IF saveOk THEN "ok" ELSE "raised")]
    /\ AppUnchanged

(* the calendar month changes *)
month_passes ==
    /\ app.feature = "budget"
    /\ app.month < MaxMonths
    /\ app' = [app EXCEPT !.month = @ + 1,
                          !.last = [op |-> "month", outcome |-> "-", save |-> "none",
                                    entered |-> <<>>]]
    /\ AppUnchanged

NextBudget ==
    \/ login_user
    \/ budget_set_monthly_budget
    \/ month_passes

SpecBudget == InitBudget /\ [][NextBudget]_vars

----------------------------------------------------------------------------
(* Properties *)

InCall == pc \notin {"idle", "done"}
Ended(o) == pc = "done" /\ op = o
(* the files a save function writes *)
Written(o) == IF o = "save_users" THEN {USERS_FILE} ELSE Files
InvalidJson(text) == text \in {Malformed, Partial}
NumBackups(f) == Cardinality(BackupFiles(backups[f]))
ValidBackups(f) == {t \in BackupFiles(backups[f]) : json_load(backups[f][t]).ok}

(* C1: atomic visibility.  At every step inside save_users / save_data, a  *)
(* live file that existed before the call holds either the complete text   *)
(* it had before the call or the complete new text, never a truncated one. *)
C1_AtomicVisibility ==
    (InCall /\ op \in SaveOps) =>
        \A f \in Written(op) :
            Exists(pre[f]) => live[f] \in {pre[f], json_dump(arg[f])}

(* C2: a save_users call that fails in its temp-write or rename step ends  *)
(* with users.json holding exactly the text it had before the call.        *)
C2_FailedSaveKeepsContent ==
    (Ended("save_users") /\ ret = Raised("write") /\ Exists(pre[USERS_FILE]))
        => live[USERS_FILE] = pre[USERS_FILE]

(* C3: write failures are never swallowed.  In save_users / save_data a    *)
(* failing temp-file write or rename sends control to the restore, and a   *)
(* call that went through the restore ends by raising, whatever the        *)
(* restore returned.                                                       *)
C3_WriteFailureRaises ==
    [][ /\ (op \in SaveOps /\ pc \in {"write", "replace"} /\ faults' < faults)
            => pc' = "restore"
        /\ (op \in SaveOps /\ pc \in {"restore", "restore_copy"})
            => \/ pc' \in {"restore", "restore_copy"}
               \/ pc' = "done" /\ ret'.kind = "raised" ]_vars

C3_Witness ==
    /\ Ended("save_data")
    /\ ret = Raised("write")
    /\ restored[USERS_FILE] /\ restored[TXNS_FILE]

(* C4: load never raises.  Every load_users / load_data call ends by       *)
(* returning to the caller.                                                *)
C4_LoadNeverRaises ==
    (pc = "done" /\ op \in LoadOps) => ret.kind = "returned"

(* C5: recovery on corruption.  When load_users is called with users.json  *)
(* holding invalid JSON and at least one backup of it holding a valid      *)
(* list, and no I/O operation fails during the call, it returns the        *)
(* content of a valid backup through the Loaded outcome.                   *)
C5_RecoveryOnCorruption ==
    (/\ Ended("load_users")
     /\ ~faulted
     /\ InvalidJson(pre[USERS_FILE])
     /\ ValidBackups(USERS_FILE) # {})
        => /\ ret.outcome = "Loaded"
           /\ \E t \in ValidBackups(USERS_FILE) :
                backups[USERS_FILE][t] = json_dump(ret.users)

(* C6: recovery exhausted.  When a load is called with the live file       *)
(* holding invalid JSON and no backup existing, and no I/O operation fails *)
(* during the call, it returns an empty collection and prints exactly one  *)
(* warning.                                                                *)
C6_RecoveryExhausted ==
    (/\ pc = "done" /\ op \in LoadOps
     /\ ~faulted
     /\ \/ op = "load_users" /\ InvalidJson(pre[USERS_FILE])
        \/ op = "load_data" /\ \E f \in Files : InvalidJson(pre[f])
     /\ \A f \in (IF op = "load_users" THEN {USERS_FILE} ELSE Files) :
            NumBackups(f) = 0)
        => /\ ret = Returned("Empty", <<>>, <<>>)
           /\ warnings = 1

(* C7: write-then-read consistency.  After a save that returned normally   *)
(* with users list U, and with no later save and no outside change of      *)
(* users.json, every load in which no I/O operation fails returns U as the *)
(* users collection.                                                       *)
C7_WriteThenRead ==
    (/\ pc = "done" /\ op \in LoadOps
     /\ ~faulted
     /\ saved # <<>>)
        => ret.kind = "returned" /\ ret.users = saved[1]

(* C8: retention bound.  After every save call that returned, each file    *)
(* it saves has at most _BACKUP_KEEP backups.                              *)
C8_RetentionBound ==
    (pc = "done" /\ op \in SaveOps /\ ret.kind = "returned")
        => \A f \in Written(op) : NumBackups(f) <= _BACKUP_KEEP

(* The bound does hold for the files whose backup copy succeeded and whose *)
(* rotation had no failing deletion in the call.                           *)
RetentionBoundWithoutFailures ==
    (pc = "done" /\ op \in SaveOps /\ ret.kind = "returned")
        => \A f \in Written(op) : ~bfail[f] => NumBackups(f) <= _BACKUP_KEEP

(* C9: retention exactness.  After more than _BACKUP_KEEP successive       *)
(* successful save_users calls exactly _BACKUP_KEEP backups remain, and    *)
(* from the oldest to the newest they hold the texts users.json had just   *)
(* before each of the last _BACKUP_KEEP saves.                             *)
NthBackup(f, i) ==
    CHOOSE t \in BackupFiles(backups[f]) :
        Cardinality({u \in BackupFiles(backups[f]) : u < t}) = i - 1

C9_RetentionExact ==
    (/\ Ended("save_users") /\ ret.kind = "returned"
     /\ Len(saves) = _BACKUP_KEEP + 1)
        => /\ NumBackups(USERS_FILE) = _BACKUP_KEEP
           /\ \A i \in 1.._BACKUP_KEEP :
                backups[USERS_FILE][NthBackup(USERS_FILE, i)] = saves[i + 1]

(* C10: idempotent initialisation.  An ensure_data_files call made when    *)
(* both directories and both files exist returns and changes nothing on    *)
(* disk; and after a call that returned they all exist, so a second call   *)
(* in a row changes nothing.                                               *)
AllExist == dataDir /\ backupDir /\ \A f \in Files : Exists(live[f])

C10_IdempotentInit ==
    /\ []((Ended("ensure_data_files") /\ ret.kind = "returned") => AllExist)
    /\ [][(pc = "idle" /\ op' = "ensure_data_files" /\ AllExist)
            => /\ ret'.kind = "returned"
               /\ <<dataDir, backupDir, live, tmp, backups>>' =
                  <<dataDir, backupDir, live, tmp, backups>>]_vars

C10_Witness ==
    /\ Ended("ensure_data_files") /\ ret.kind = "returned"
    /\ \A f \in Files : Exists(pre[f])
    /\ live[USERS_FILE] \notin {EmptyArray, Absent}
    /\ NumBackups(USERS_FILE) > 0

(* C11: backups are copies.  At every step inside save_users / save_data    *)
(* each file the call saves exists (it can be opened), and the steps of     *)
(* _make_backup, the copy and the rotation, leave every live file exactly   *)
(* as it was: nothing is moved, renamed away or deleted.                    *)
C11_BackupsAreCopies ==
    /\ []((InCall /\ op \in SaveOps) => \A f \in Written(op) : Exists(live[f]))
    /\ [][(pc \in {"backup", "rotate"}) => live' = live]_vars

(* the backup of a file holding saved records was just made *)
C11_Witness ==
    /\ op = "save_users" /\ pc = "rotate"
    /\ live[USERS_FILE] = pre[USERS_FILE]
    /\ live[USERS_FILE] # EmptyArray
    /\ backups[USERS_FILE][clock] = live[USERS_FILE]

(* C12: order of the steps of a save.  Rotation comes after the rename: in  *)
(* a save call a backup of a file is deleted only when the file already     *)
(* holds the new content.                                                   *)
C12_RotationAfterRename ==
    [][\A f \in Files :
        (op \in SaveOps /\ BackupFiles(backups'[f]) # BackupFiles(backups[f])
                        /\ BackupFiles(backups'[f]) \subseteq BackupFiles(backups[f]))
            => live[f] = json_dump(arg[f])]_vars

(* C13: on-disk validity.  With no change made from outside the process, a  *)
(* live file that held a valid JSON array when a call started holds a valid *)
(* JSON array when the call has ended, whether it returned or raised.       *)
C13_OnDiskValidity ==
    pc = "done" =>
        \A f \in Files : json_load(pre[f]).ok => json_load(live[f]).ok

(* C14: format check on load.  A load that finds a file it reads holding    *)
(* anything but a JSON array of objects enters recovery instead of          *)
(* returning the value.                                                     *)
ReadBy(o) == IF o = "load_users" THEN {USERS_FILE} ELSE Files
ArrayOfObjects(text) ==
    text[1] = "array" /\ \A i \in 1..Len(text[2]) : text[2][i][1] = "object"

C14_FormatCheckOnLoad ==
    [][(pc = "read" /\ \E f \in ReadBy(op) : ~ArrayOfObjects(live[f]))
            => pc' = "restore"]_vars

(* C15: round trip.  A load_users that follows a successful save_users(C)   *)
(* returns a list equal to C: the same number of records, and the i-th      *)
(* record returned equal to the i-th record of C.  Equality is that of      *)
(* Python: dicts are equal when they have the same keys with equal values,  *)
(* and a float nan is equal to nothing.                                     *)
PyEq(v, w) == v = w /\ v # nan
Keys(d) == {d[2][i][1] : i \in 1..Len(d[2])}
DictEq(d, e) ==
    /\ d[1] = "dict" /\ e[1] = "dict"
    /\ Keys(d) = Keys(e)
    /\ \A i \in 1..Len(d[2]), j \in 1..Len(e[2]) :
            d[2][i][1] = e[2][j][1] => PyEq(d[2][i][2], e[2][j][2])
ListEq(a, b) == Len(a) = Len(b) /\ \A i \in 1..Len(a) : DictEq(a[i], b[i])

C15_RoundTrip ==
    (Ended("load_users") /\ saved # <<>>)
        => ret.outcome = "Loaded" /\ ListEq(ret.users, saved[1])

(* The round trip does hold for the lists no field of which is nan. *)
HasNan(list) ==
    \E i \in 1..Len(list) : \E j \in 1..Len(list[i][2]) : list[i][2][j][2] = nan
RoundTripWithoutNan ==
    (Ended("load_users") /\ saved # <<>> /\ ~HasNan(saved[1]))
        => ret.outcome = "Loaded" /\ ListEq(ret.users, saved[1])

(* C16: monetary exactness.  After a save followed by a reload every        *)
(* amount a feature persisted equals the decimal that was typed, and the    *)
(* value read from the file for it is not a binary float.                   *)
C16_MonetaryExactness ==
    money.restarted =>
        \A i \in 1..Len(money.typed) :
            /\ DecimalEq(money.reloaded[i], money.typed[i])
            /\ money.memory[i][1] # "float"

(* The amounts of the budgets and of the savings goals, persisted as the   *)
(* str of the Decimal, do come back exactly.                                *)
MoneyExactAsStr ==
    (money.restarted /\ money.feature \in StrFeatures) =>
        \A i \in 1..Len(money.typed) :
            /\ money.reloaded[i] = money.typed[i]
            /\ money.memory[i][1] # "float"

(* What float storage loses: the digits beyond the seventeenth. *)
MoneyExactAsFloat ==
    (money.restarted /\ money.feature \in FloatFeatures) =>
        \A i \in 1..Len(money.typed) : DecimalEq(money.reloaded[i], money.typed[i])

(* C17: recovery state machine.  Every call of load_users or load_data      *)
(* ends in Loaded or in Empty; it restores a file from its backup at most   *)
(* once and retries the decode at most once: the restore step is entered    *)
(* only from the failed first read, the retry only from the restore step,   *)
(* and the retry is followed by the end of the call, never by a restore.    *)
Terminal == {"Loaded", "Empty"}
RestoreSteps == {"restore", "restore_copy"}
RecoveryStep ==
    /\ pc' = "read" => pc = "idle"
    /\ (pc' = "restore" /\ pf' = USERS_FILE) => pc = "read"
    /\ (pc' = "restore" /\ pf' = TXNS_FILE) =>
            (op = "load_data" /\ pc \in RestoreSteps /\ pf = USERS_FILE)
    /\ pc' = "restore_copy" => (pc = "restore" /\ pf' = pf)
    /\ pc' = "reread" => pc \in RestoreSteps
    /\ pc = "reread" => (pc' = "done" /\ live' = live)
C17_RecoveryStateMachine ==
    /\ []((pc = "done" /\ op \in LoadOps) =>
            (ret.kind = "returned" /\ ret.outcome \in Terminal))
    /\ [][op' \in LoadOps => RecoveryStep]_vars

(* The transitions of the recovery are as stated; what is not is the end   *)
(* of a load whose ensure_data_files fails.                                 *)
RecoveryTransitions == [][op' \in LoadOps => RecoveryStep]_vars
RecoveryTerminal ==
    (pc = "done" /\ op \in LoadOps /\ ret.outcome # "init") =>
        (ret.kind = "returned" /\ ret.outcome \in Terminal)

(* C18: backup entries are immutable.  No step changes the content of a     *)
(* backup file that exists: a step leaves it as it is or deletes it.        *)
C18_BackupsImmutable ==
    [][\A f \in Files, t \in Ts :
        Exists(backups[f][t]) => backups'[f][t] \in {backups[f][t], Absent}]_vars

(* Only the copy of _make_backup writes to an existing entry, and only to   *)
(* the one named by the current second; restores, loads and rotation never  *)
(* do.                                                                      *)
BackupsOverwrittenOnlyBySameSecondCopy ==
    [][\A f \in Files, t \in Ts :
        (Exists(backups[f][t]) /\ backups'[f][t] \notin {backups[f][t], Absent})
            => (pc = "backup" /\ pf = f /\ t = _backup_filename(clock))]_vars

(* C19: the backup step is best effort.  _make_backup of a file that does   *)
(* not exist returns None and leaves the backups as they are; a copy that   *)
(* fails makes it return None, not raise; inside save_users / save_data the *)
(* backup step is never the end of the call, which goes on to the write,    *)
(* and a save that returns has installed the content it was given, whether  *)
(* or not its backups were made.                                            *)
CopyFailed == faults' < faults
BackupStep == pc = "backup" /\ clock' = clock
C19_BackupBestEffort ==
    /\ [][BackupStep =>
            /\ ~Exists(live[pf]) =>
                    /\ backups' = backups
                    /\ op = "_make_backup" => ret' = Returned("None", <<>>, <<>>)
            /\ CopyFailed =>
                    /\ op = "_make_backup" => ret' = Returned("None", <<>>, <<>>)
                    /\ op \in SaveOps => pc' \in {"backup", "write"}
            /\ op \in SaveOps => pc' \in {"backup", "rotate", "write"}]_vars
    /\ []((pc = "done" /\ op \in SaveOps /\ ret.kind = "returned") =>
            \A f \in Written(op) : live[f] = json_dump(arg[f]))

(* a save has returned although a backup copy failed, and the new users    *)
(* are installed                                                           *)
C19_Witness ==
    /\ pc = "done"
    /\ op \in SaveOps
    /\ warnings > 0
    /\ ret.kind = "returned"
    /\ arg.users # <<>>
    /\ live[USERS_FILE] = json_dump(arg.users)

(* _make_backup has returned None for a file that does not exist *)
BackupOfMissingFile ==
    /\ pc = "done"
    /\ op = "_make_backup"
    /\ ret = Returned("None", <<>>, <<>>)
    /\ \E f \in Files : ~Exists(live[f])
    /\ \A f \in Files : BackupFiles(backups[f]) = {}

(* C20: the result of restore_latest_backup(path).  It returns True exactly *)
(* when a backup of path exists and the copy succeeded; then the live file  *)
(* holds the content of the backup with the greatest timestamp and the      *)
(* other live file is untouched; with no backup it returns False and the    *)
(* live files are unchanged; no step of it changes a backup.                *)
HasBackup(f) == \E t \in Ts : Exists(backups[f][t])
GreatestBackup(f) ==
    CHOOSE t \in Ts :
        /\ Exists(backups[f][t])
        /\ \A u \in Ts : Exists(backups[f][u]) => u <= t
Restoring == pc \in RestoreSteps
RestoreReturns == Restoring /\ pc' # "restore_copy"
CopySucceeded == pc = "restore_copy" /\ faults' = faults
C20_RestoreResult ==
    [][Restoring =>
        /\ backups' = backups
        /\ RestoreReturns =>
            /\ restored'[pf] <=> (HasBackup(pf) /\ CopySucceeded)
            /\ restored'[pf] =>
                    live' = [live EXCEPT ![pf] = backups[pf][GreatestBackup(pf)]]
            /\ ~HasBackup(pf) => (~restored'[pf] /\ live' = live)]_vars

(* users.json has been restored from the later of two backups *)
C20_Witness ==
    /\ pc = "reread"
    /\ restored[USERS_FILE]
    /\ NumBackups(USERS_FILE) >= 2
    /\ live[USERS_FILE] = json_dump(<<u1>>)
    /\ live[USERS_FILE] = backups[USERS_FILE][GreatestBackup(USERS_FILE)]

(* C21: the root-level save_data is atomic.  While it runs and when it has  *)
(* ended, each live file that existed before the call exists and holds its  *)
(* previous content or the new content; and when the call has failed in its *)
(* write phase, load_data returns the previous contents.                    *)
RootSaving == op = "root_save_data" /\ pc # "idle"
C21_RootSaveAtomic ==
    /\ RootSaving =>
            \A f \in Files :
                Exists(pre[f]) => live[f] \in {pre[f], json_dump(arg[f])}
    /\ (RootSaving /\ pc = "done" /\ ret = Raised("write")
            /\ \A f \in Files : json_load(pre[f]).ok) =>
            root_load_data(live, TRUE) =
                [users |-> json_load(pre[USERS_FILE]).val,
                 txns |-> json_load(pre[TXNS_FILE]).val]

(* C22: rotation is total.  _rotate_backups never raises; every iteration   *)
(* of its loop shortens the list it works on, so it terminates; it attempts *)
(* to delete only backups that have at least keep newer ones, in ascending  *)
(* order of timestamp, and a backup it did not attempt is left as it was.   *)
Rotating == op = "_rotate_backups" /\ pc \in {"rotating", "done"}
NewerThan(t) == {u \in rot.found : u > t}
C22_RotationTotal ==
    /\ [](Rotating =>
            /\ \A i \in 1..Len(rot.attempted) :
                    /\ rot.attempted[i] \in rot.found
                    /\ Cardinality(NewerThan(rot.attempted[i])) >= rot.keep
                    /\ \A j \in 1..(i - 1) : rot.attempted[j] < rot.attempted[i]
            /\ \A t \in rot.found :
                    (\A i \in 1..Len(rot.attempted) : rot.attempted[i] # t)
                        => Exists(backups[pf][t])
            /\ pc = "done" =>
                    /\ ret = Returned("None", <<>>, <<>>)
                    /\ Len(rot.attempted) =
                            Max({0, Cardinality(rot.found) - rot.keep}))
    /\ [][pc = "rotating" =>
            (pc' = "done" \/ Len(rot'.files) < Len(rot.files))]_vars

(* the loop has ended after two removals were attempted, one of which      *)
(* failed, and the newest keep backups were not touched                    *)
C22_Witness ==
    /\ Rotating
    /\ pc = "done"
    /\ rot.keep = 1
    /\ Len(rot.attempted) = 2
    /\ Exists(backups[pf][rot.attempted[1]])
    /\ ~Exists(backups[pf][rot.attempted[2]])

(* C23: the recovery of load_data is not per file.  When exactly one of the *)
(* two files cannot be decoded and no I/O operation fails during the call,  *)
(* every file that has a backup ends as a copy of its latest backup, the    *)
(* valid one included, a file without backup is left as it was, and if the  *)
(* failing file has no backup while the other has one the call returns      *)
(* ([], []).                                                                *)
OnlyFails(f) ==
    /\ Exists(pre[f])
    /\ ~json_load(pre[f]).ok
    /\ \A g \in Files \ {f} : json_load(pre[g]).ok
C23_RecoveryNotPerFile ==
    \A f \in Files :
        (pc = "done" /\ op = "load_data" /\ ~faulted /\ OnlyFails(f)) =>
            /\ \A h \in Files :
                    live[h] = IF HasBackup(h) THEN backups[h][GreatestBackup(h)]
                              ELSE pre[h]
            /\ (~HasBackup(f) /\ \E g \in Files : HasBackup(g)) =>
                    ret = Returned("Empty", <<>>, <<>>)

(* transactions.json could not be decoded and has no backup: the valid      *)
(* users.json has been reverted to its backup and ([], []) returned         *)
C23_Witness ==
    /\ pc = "done"
    /\ op = "load_data"
    /\ ~faulted
    /\ OnlyFails(TXNS_FILE)
    /\ ~HasBackup(TXNS_FILE)
    /\ pre[USERS_FILE] = json_dump(<<u1>>)
    /\ live[USERS_FILE] = EmptyArray
    /\ ret = Returned("Empty", <<>>, <<>>)

(* C24: two-file rollback of save_data.  When both files existed before the *)
(* call and both backup copies of the call succeeded, save_data never ends  *)
(* with users.json holding the new users and transactions.json still        *)
(* holding its old content.                                                 *)
BackupsMade == \A f \in Files : Exists(pre[f]) /\ ~bfail[f]
NewText(f) == json_dump(arg[f])
C24_TwoFileRollback ==
    (pc = "done" /\ op = "save_data" /\ BackupsMade) =>
        ~(/\ live[USERS_FILE] = NewText(USERS_FILE)
          /\ live[USERS_FILE] # pre[USERS_FILE]
          /\ live[TXNS_FILE] = pre[TXNS_FILE]
          /\ live[TXNS_FILE] # NewText(TXNS_FILE))

(* The rollback is an attempt: when save_data has failed in its write      *)
(* phase, each file whose restore_latest_backup returned True holds its    *)
(* pre-call content, so that with both restored both do.                   *)
C24_RollbackWhenRestored ==
    (pc = "done" /\ op = "save_data" /\ ret = Raised("write") /\ BackupsMade) =>
        \A f \in Files : restored[f] => live[f] = pre[f]

(* the only failure so far was in the write of transactions.json.tmp, after *)
(* users.json had been replaced; both files are back at their pre-call      *)
(* contents                                                                 *)
C24_Witness ==
    /\ pc = "done"
    /\ op = "save_data"
    /\ ret = Raised("write")
    /\ BackupsMade
    /\ faults = MaxFaultsS - 1
    /\ tmp[TXNS_FILE] = Partial
    /\ tmp[USERS_FILE] = Absent
    /\ restored[USERS_FILE] /\ restored[TXNS_FILE]
    /\ pre[USERS_FILE] # NewText(USERS_FILE)
    /\ \A f \in Files : live[f] = pre[f]

(* C25: per-file isolation.  A step of _make_backup, _rotate_backups or     *)
(* restore_latest_backup working on one file leaves the other live file and *)
(* the backups of the other file as they are, and no step of save_users or  *)
(* load_users, the call of ensure_data_files at their start included,       *)
(* changes transactions.json or one of its backups.                         *)
BackupManagerStep == pc \in {"backup", "rotate", "restore", "restore_copy"}
UsersCallStep == op' \in {"save_users", "load_users"} /\ pc # "done"
OtherFileUntouched ==
    \A g \in Files \ {pf} : backups'[g] = backups[g] /\ live'[g] = live[g]
C25_PerFileIsolation ==
    [][/\ BackupManagerStep => OtherFileUntouched
       /\ UsersCallStep =>
            /\ backups'[TXNS_FILE] = backups[TXNS_FILE]
            /\ live'[TXNS_FILE] = live[TXNS_FILE]]_vars

(* ... except that ensure_data_files creates transactions.json when it is   *)
(* missing: a transactions.json that exists is never changed by save_users  *)
(* or load_users, and a missing one becomes [] (or is left missing or       *)
(* half-written when ensure_data_files fails).                              *)
C25_IsolationOfExistingFiles ==
    [][/\ BackupManagerStep => OtherFileUntouched
       /\ UsersCallStep =>
            /\ backups'[TXNS_FILE] = backups[TXNS_FILE]
            /\ tmp'[TXNS_FILE] = tmp[TXNS_FILE]
            /\ IF Exists(live[TXNS_FILE])
               THEN live'[TXNS_FILE] = live[TXNS_FILE]
               ELSE /\ pc = "idle"
                    /\ live'[TXNS_FILE] \in {Absent, Partial, EmptyArray}]_vars

(* load_users has restored users.json while transactions.json differs from *)
(* its own latest backup                                                   *)
C25_Witness ==
    /\ pc = "reread"
    /\ op = "load_users"
    /\ restored[USERS_FILE]
    /\ HasBackup(TXNS_FILE)
    /\ live[TXNS_FILE] = json_dump(<<t1>>)
    /\ live[TXNS_FILE] # backups[TXNS_FILE][GreatestBackup(TXNS_FILE)]

(* C26: no rollback of the in-memory state on a failed save.  When the save *)
(* inside register_user has failed, the registration is still reported as   *)
(* successful, the new user is the last of the users list, next_id is past  *)
(* its number, and users.json does not hold the users list; a successful    *)
(* save makes the two equal again.                                          *)
OnDisk(list) == app.disk.valid /\ app.disk.users = list
Registered == app.last.op = "register_user" /\ app.last.outcome = "registered"
C26_NoRollbackOnFailedSave ==
    /\ [][(Registered /\ app.last.save = "failed")' =>
            /\ Len(app'.users) = Len(app.users) + 1
            /\ SubSeq(app'.users, 1, Len(app.users)) = app.users
            /\ app'.users[Len(app'.users)].user_id = format_id(<<"U">>, app.next_id)
            /\ app'.next_id = app.next_id + 1
            /\ ~OnDisk(app.users)']_vars
    /\ []((Registered /\ app.last.save = "ok") => OnDisk(app.users))
    /\ []((Registered /\ app.last.save = "failed") => ~OnDisk(app.users))

(* a registration whose save failed, after one whose save succeeded *)
C26_Witness ==
    /\ Registered
    /\ app.last.save = "failed"
    /\ Len(app.users) = 2
    /\ app.disk = [valid |-> TRUE, users |-> <<app.users[1]>>]

(* C27: session invariant of auth.  current_user is None or an element of   *)
(* the users list; it changes only in a login_user whose entered name       *)
(* matches the new current user ignoring case and whose entered password is *)
(* that user's, or in a switch_profile whose entered password is the        *)
(* selected user's; a failed login, a failed switch, an invalid selection   *)
(* and every register_user leave it unchanged.                              *)
SessionChanged == app'.current_user # app.current_user
FailedSession ==
    \/ app.last.op = "register_user"
    \/ app.last.op = "login_user" /\ app.last.outcome = "invalid"
    \/ app.last.op = "switch_profile"
            /\ app.last.outcome \in {"no users", "invalid", "incorrect"}
C27_SessionInvariant ==
    /\ [](\/ app.current_user = <<>>
          \/ \E i \in 1..Len(app.users) : app.current_user = <<app.users[i]>>)
    /\ [][SessionChanged =>
            LET u == app'.current_user[1]
                e == app'.last.entered
            IN  /\ app'.current_user # <<>>
                /\ \/ /\ app'.last.op = "login_user"
                      /\ lower(u.name) = lower(e[1])
                      /\ u.password = e[2]
                   \/ /\ app'.last.op = "switch_profile"
                      /\ e[1] \in 1..Len(app.users)
                      /\ u = app.users[e[1]]
                      /\ u.password = e[2]]_vars
    /\ [][FailedSession' => ~SessionChanged]_vars

(* a login under a name written in another case than the stored one, by a   *)
(* user registered in this session, after which a switch was refused        *)
C27_Witness ==
    /\ app.feature = "auth"
    /\ app.current_user # <<>>
    /\ app.current_user[1].name = <<"C", "y">>
    /\ app.last.op = "switch_profile"
    /\ app.last.outcome = "incorrect"

(* C28: unique users.  Starting from a loaded users list whose user_ids are *)
(* pairwise distinct, after any register_user calls the user_ids are        *)
(* pairwise distinct, the names are pairwise distinct ignoring case and     *)
(* next_id is greater than the numeric part of every user_id; a rejected    *)
(* registration leaves the list and next_id unchanged.                      *)
IdsDistinct(list) ==
    \A i, j \in 1..Len(list) : i # j => list[i].user_id # list[j].user_id
NamesDistinct(list) ==
    \A i, j \in 1..Len(list) : i # j => lower(list[i].name) # lower(list[j].name)
NextIdAbove(a) ==
    \A i \in 1..Len(a.users) : a.next_id > int_of_digits(a.users[i].user_id)
Rejected ==
    app.last.op = "register_user" /\ app.last.outcome \in {"mismatch", "exists"}
RejectedLeavesUsers ==
    [][Rejected' => app'.users = app.users /\ app'.next_id = app.next_id]_vars
C28_UniqueUsers ==
    /\ [](app.last.op = "register_user" =>
            IdsDistinct(app.users) /\ NamesDistinct(app.users) /\ NextIdAbove(app))
    /\ RejectedLeavesUsers

(* C28 as the code has it: the user_ids stay pairwise distinct and next_id  *)
(* stays above every numeric part; the names stay pairwise distinct         *)
(* ignoring case when they were so in the list before the call; a rejected  *)
(* registration leaves the list and next_id unchanged.                      *)
C28_UniqueUsersFromUniqueNames ==
    /\ [](IdsDistinct(app.users) /\ NextIdAbove(app))
    /\ [][NamesDistinct(app.users) => NamesDistinct(app'.users)]_vars
    /\ RejectedLeavesUsers

(* a name refused because it differs only in case from a stored one, in a   *)
(* list of distinct names that starts with an id without zero padding and   *)
(* grew by a registration                                                   *)
C28_Witness ==
    /\ Rejected
    /\ app.last.outcome = "exists"
    /\ NamesDistinct(app.users)
    /\ Len(app.users) = 2
    /\ app.users[1].user_id = <<"U", "7">>
    /\ app.users[2].user_id = <<"U", "0", "0", "8">>

(* C29: ownership frame of transactions.  edit_transaction and              *)
(* delete_transaction change or remove only the transaction with the        *)
(* entered id, and only when its user_id is the current user's; when nobody *)
(* is logged in, the id is unknown or the transaction belongs to another    *)
(* user, the list is unchanged and no save is attempted; under              *)
(* add_transaction and delete_transaction the transaction_ids stay          *)
(* pairwise distinct.                                                       *)
EditOrDelete == app.last.op \in {"edit_transaction", "delete_transaction"}
OwnedBy(tx, cu) == cu # <<>> /\ tx.user_id = cu[1].user_id
WithId(txns, txn_id) == {i \in 1..Len(txns) : txns[i].transaction_id = txn_id}
TxnIdsDistinct ==
    \A i, j \in 1..Len(app.transactions) :
        i # j => app.transactions[i].transaction_id # app.transactions[j].transaction_id
C29_OwnershipFrame ==
    /\ [][EditOrDelete' /\ app'.transactions # app.transactions =>
            \E i \in WithId(app.transactions, app'.last.entered[1]) :
                LET old == app.transactions
                    new == app'.transactions
                IN  /\ OwnedBy(old[i], app.current_user)
                    /\ \/ /\ app'.last.op = "edit_transaction"
                          /\ Len(new) = Len(old)
                          /\ \A j \in 1..Len(old) : j # i => new[j] = old[j]
                          /\ new[i].transaction_id = old[i].transaction_id
                          /\ new[i].user_id = old[i].user_id
                       \/ /\ app'.last.op = "delete_transaction"
                          /\ new = SubSeq(old, 1, i - 1) \o SubSeq(old, i + 1, Len(old))]_vars
    /\ [][(/\ EditOrDelete'
           /\ \A i \in WithId(app.transactions, app'.last.entered[1]) :
                    ~OwnedBy(app.transactions[i], app.current_user))
            => app'.transactions = app.transactions /\ app'.last.save = "none"]_vars
    /\ []TxnIdsDistinct

(* the second user is refused the deletion of a transaction that the first  *)
(* user added after deleting an earlier one of their own                    *)
C29_Witness ==
    /\ app.feature = "transactions"
    /\ app.last.op = "delete_transaction"
    /\ app.last.outcome = "not found"
    /\ app.current_user # <<>>
    /\ app.current_user[1].user_id = <<"U", "0", "0", "2">>
    /\ app.transactions # <<>>
    /\ app.last.entered[1] = app.transactions[1].transaction_id
    /\ app.transactions[1].user_id = <<"U", "0", "0", "1">>
    /\ app.next_id > Len(app.transactions) + 1

(* C30: one budget per user and month.  The budgets list has at most one    *)
(* record per (user_id, month); setting a budget for a user and month that  *)
(* have a record replaces its amount in place, else appends one record; an  *)
(* invalid or non-positive amount or a missing login leaves the list        *)
(* unchanged and triggers no save.                                          *)
SetBudget == app.last.op = "set_monthly_budget"
NotPositive(text) ==
    \/ text = <<>>
    \/ \E i \in 1..Len(text) : text[i] \notin Digit
    \/ \A i \in 1..Len(text) : text[i] = "0"
RecordsOf(list, uid, month) ==
    {i \in 1..Len(list) : list[i].user_id = uid /\ list[i].month = month}
C30_OneBudgetPerUserMonth ==
    /\ [](\A i, j \in 1..Len(app.budgets) :
            (/\ app.budgets[i].user_id = app.budgets[j].user_id
             /\ app.budgets[i].month = app.budgets[j].month) => i = j)
    /\ [][(SetBudget' /\ app.current_user # <<>>
                      /\ ~NotPositive(app'.last.entered[1])) =>
            LET old == app.budgets
                new == app'.budgets
                uid == app.current_user[1].user_id
                had == RecordsOf(old, uid, app.month)
            IN  IF had # {}
                THEN /\ Len(new) = Len(old)
                     /\ \A i \in 1..Len(old) :
                            IF i \in had
                            THEN /\ new[i].user_id = uid
                                 /\ new[i].month = app.month
                                 /\ new[i].budget
                                        = int_of_digits(app'.last.entered[1])
                            ELSE new[i] = old[i]
                ELSE /\ Len(new) = Len(old) + 1
                     /\ SubSeq(new, 1, Len(old)) = old
                     /\ new[Len(new)]
                            = [user_id |-> uid, month |-> app.month,
                               budget |-> int_of_digits(app'.last.entered[1])]]_vars
    /\ [][(SetBudget' /\ (app.current_user = <<>>
                            \/ NotPositive(app'.last.entered[1]))) =>
            app'.budgets = app.budgets /\ app'.last.save = "none"]_vars

(* a budget set again in the same month: one record of this user and month  *)
(* with the second amount, beside the records of another month and user     *)
C30_Witness ==
    /\ app.feature = "budget"
    /\ SetBudget
    /\ app.last.outcome = "set"
    /\ app.month = 2
    /\ Len(app.budgets) = 3
    /\ app.budgets[2] = [user_id |-> <<"U", "0", "0", "1">>, month |-> 1, budget |-> 7]
    /\ app.budgets[3] = [user_id |-> <<"U", "0", "0", "1">>, month |-> 2, budget |-> 5]
    /\ app.last.entered = <<<<"5">>>>

====
